---- MODULE Spec2Model ----
(***************************************************************************)
(* The tool-calling agents of python/coding_agent_mcp_example.py (variant  *)
(* "mcp") and python/coding_agent_example.py (variant "single"): the       *)
(* ChatBot object (messages, number_of_prompts_sent), its methods          *)
(* execute_tool, should_enable_tools_for_next_turn, __call__ and execute,  *)
(* and the module-level function query, with its cycle limit in the first  *)
(* file and its single round of tools in the second.  Variant "chat" is    *)
(* the ChatBot of python/chatbot_example.py, which python/react_example.py *)
(* and python/exercises/react_count_example.py repeat: __call__ appends    *)
(* the user message and the answer of execute.  A session runs one of the  *)
(* programs.                                                               *)
(*                                                                         *)
(* The completion endpoint and the capabilities of CodingAgentTools are    *)
(* the environment.  The endpoint answers each call with one reply drawn   *)
(* from Replies, or fails.  The project directory is fixed, so a           *)
(* capability is a function of its arguments.                              *)
(*                                                                         *)
(* Texts typed by the user are sequences of one-character strings, so that *)
(* lower-casing and substring search are computed character by character.  *)
(* All other texts are TLA+ strings built with \o.                         *)
(***************************************************************************)
EXTENDS Integers, Sequences, FiniteSets, TLC

(***************************************************************************)
(* Bounds of the model.                                                    *)
(***************************************************************************)
\* queries asked in one session
MaxQueries == 2
\* a query is asked only while number_of_prompts_sent is below MaxPrompts (the
\* counter is unbounded in the code); a query that was asked runs to its end
MaxPrompts == 3
\* replies of one query in which the endpoint is free to request any tools; after
\* them a reply that requests tools repeats the request of the reply before it
MaxVaried == 2

\* messages after the system message in a conversation handed to the two gates
MaxLen == 3

\* query: max_tool_cycles = 8
max_tool_cycles == 8

(***************************************************************************)
(* Python values.                                                          *)
(***************************************************************************)
\* None, where the code reads a content that is absent
None == "<None>"

\* a text x that may be None, left as it is
OrEmpty_Keep(x) == x

\* `x or ""` for a text x that may be None
OrEmpty(x) == IF x = None THEN "" ELSE x

\* the outcome of evaluating a Python expression: a value, or an exception
Ret(v) == [exc |-> FALSE, val |-> v]
Raise(type, msg) == [exc |-> TRUE, type |-> type, msg |-> msg]

\* a str result and a dict result {"stdout", "stderr", "returncode"}
Str(s) == [t |-> "str", s |-> s]
Dict(out, err, rc) == [t |-> "dict", stdout |-> out, stderr |-> err, returncode |-> rc]

(***************************************************************************)
(* Texts of the user.                                                      *)
(***************************************************************************)
Upper == <<"A","B","C","D","E","F","G","H","I","J","K","L","M",
           "N","O","P","Q","R","S","T","U","V","W","X","Y","Z">>
Lower == <<"a","b","c","d","e","f","g","h","i","j","k","l","m",
           "n","o","p","q","r","s","t","u","v","w","x","y","z">>

\* str.lower() on one character
LowerChar(c) ==
    IF \E i \in 1..Len(Upper) : Upper[i] = c
    THEN Lower[CHOOSE i \in 1..Len(Upper) : Upper[i] = c]
    ELSE c

\* str.lower()
lower(text) == [i \in 1..Len(text) |-> LowerChar(text[i])]

\* `sub in text`
Contains(text, sub) ==
    \E i \in 0..(Len(text) - Len(sub)) :
        \A j \in 1..Len(sub) : text[i + j] = sub[j]

\* \s of the re module, on the characters the model uses
IsSpace(c) == c \in {" ", "\t", "\n"}

\* re.search(r"go\s+<word>", text)
ContainsGoThen(text, word) ==
    \E i \in 1..Len(text), n \in 1..Len(text) :
        /\ i + 1 + n + Len(word) <= Len(text)
        /\ text[i] = "g" /\ text[i + 1] = "o"
        /\ \A k \in 1..n : IsSpace(text[i + 1 + k])
        /\ \A j \in 1..Len(word) : text[i + 1 + n + j] = word[j]

\* the alternatives of the pattern of execute_tool that are plain words
ShellWords ==
    { <<"b","a","s","h">>, <<"s","h","e","l","l">>,
      <<"t","e","r","m","i","n","a","l">>, <<"r","u","n">>,
      <<"e","x","e","c","u","t","e">>, <<"n","p","m">>, <<"n","o","d","e">>,
      <<"y","a","r","n">>, <<"p","n","p","m">>, <<"p","i","p">>,
      <<"p","y","t","h","o","n">>, <<"p","y","t","e","s","t">>,
      <<"t","s","-","n","o","d","e">>, <<"t","s","c">>, <<"m","a","k","e">>,
      <<"g","r","a","d","l","e">>, <<"c","a","r","g","o">> }

\* re.search(r"(bash|shell|...|go\s+run|go\s+build)", text)
ShellPatternSearch(text) ==
    \/ \E w \in ShellWords : Contains(text, w)
    \/ ContainsGoThen(text, <<"r","u","n">>)
    \/ ContainsGoThen(text, <<"b","u","i","l","d">>)

\* the texts a user types in the model
UserTexts ==
    { <<"h","i">>,
      <<"R","u","n"," ","l","s">> }

\* the texts of the user messages of the conversations handed to the two gates
GateTexts ==
    UserTexts \cup
    { <<"g","r","e","p"," ","x">>,
      <<"g","o"," "," ","b","u","i","l","d">>,
      <<"W","h","a","t"," ","i","s"," ","t","h","e"," ","c","a","p","i","t","a","l",
        " ","o","f"," ","F","r","a","n","c","e","?">> }

(***************************************************************************)
(* The arguments text of a tool call and json.loads.                       *)
(* A JSON text is an object with string members, a JSON value that is not  *)
(* an object (an array), or a text that is not JSON.                       *)
(***************************************************************************)
Obj(members) == [form |-> "object", members |-> members]
JsonArray == [form |-> "array"]
NotJson == [form |-> "invalid"]

\* json.loads(text)
json_loads(text) ==
    IF text.form = "invalid"
    THEN Raise("JSONDecodeError", "Expecting value: line 1 column 1 (char 0)")
    ELSE Ret(text)

\* arguments[key]
GetItem(arguments, key) ==
    IF arguments.form = "object"
    THEN IF key \in DOMAIN arguments.members
         THEN Ret(arguments.members[key])
         ELSE Raise("KeyError", "'" \o key \o "'")
    ELSE Raise("TypeError", "list indices must be integers or slices, not str")

\* arguments.get(key, default)
Get(arguments, key, default) ==
    IF arguments.form = "object"
    THEN IF key \in DOMAIN arguments.members
         THEN Ret(arguments.members[key])
         ELSE Ret(default)
    ELSE Raise("AttributeError", "'list' object has no attribute 'get'")

\* json.dumps of a str (texts of the model need no escaping)
JsonStr(s) == "\"" \o s \o "\""

\* json.dumps(value, indent=2) of a dict result or of a list of str
json_dumps_indent2(value) ==
    IF value.t = "dict"
    THEN "{\n  \"stdout\": " \o JsonStr(value.stdout)
         \o ",\n  \"stderr\": " \o JsonStr(value.stderr)
         \o ",\n  \"returncode\": " \o ToString(value.returncode) \o "\n}"
    ELSE IF Len(value.items) = 0
         THEN "[]"
         ELSE "[\n  " \o JsonStr(value.items[1]) \o "\n]"

\* json.dumps(value) of a dict result or of a list of str
json_dumps(value) ==
    IF value.t = "dict"
    THEN "{\"stdout\": " \o JsonStr(value.stdout)
         \o ", \"stderr\": " \o JsonStr(value.stderr)
         \o ", \"returncode\": " \o ToString(value.returncode) \o "}"
    ELSE IF Len(value.items) = 0
         THEN "[]"
         ELSE "[" \o JsonStr(value.items[1]) \o "]"

\* coding_agent_example.query:
\* json.dumps(tool_result) if not isinstance(tool_result, str) else tool_result
DisplaySingle(tool_result) ==
    IF tool_result.t = "str" THEN tool_result.s ELSE json_dumps(tool_result)

\* query: display = tool_result if isinstance(tool_result, str) else json.dumps(tool_result, indent=2)
Display(tool_result) ==
    IF tool_result.t = "str" THEN tool_result.s ELSE json_dumps_indent2(tool_result)

(***************************************************************************)
(* The capabilities of CodingAgentTools over a fixed project directory     *)
(* that holds the one file a.txt.                                          *)
(***************************************************************************)
List(items) == [t |-> "list", items |-> items]

agent_read_file(filepath) ==
    IF filepath = "a.txt"
    THEN Ret(Str("hello"))
    ELSE Raise("FileNotFoundError", "No such file: " \o filepath)

agent_write_file(filepath, content) == Ret(None)

agent_see_file_tree(root_dir) == Ret(List(<<"a.txt">>))

agent_execute_bash_command(command, cwd) ==
    IF command = "ls"
    THEN Ret(<<"a.txt", "", 0>>)
    ELSE Ret(<<"", "command not found", 127>>)

agent_search_in_files(pattern, root_dir) == Ret(List(<<>>))

\* what the sequentialthinking bridge does on one call
McpOutcomes == {"unavailable", "answered", "failed"}

\* the outcomes of the bridge call by _MCP_AVAILABLE: without the client library
\* the function returns before _run
BridgeOutcomes(available) ==
    IF available THEN McpOutcomes \ {"unavailable"} ELSE {"unavailable"}

\* the times a call of execute_tool enters stdio_client: once in
\* _call_sequential_thinking when the client library is there
Launches(tool_name, mcp) ==
    IF tool_name = "sequentialthinking" /\ mcp # "unavailable" THEN 1 ELSE 0

\* ChatBot._call_sequential_thinking, by the outcome of the bridge call
call_sequential_thinking(args, mcp) ==
    CASE mcp = "unavailable" ->
           Ret(Str("MCP client not installed. Please install the Python SDK."))
      [] mcp = "answered" -> Ret(Str("(no content)"))
      [] OTHER -> Ret(Str("Error calling sequentialthinking via MCP: failed"))

(***************************************************************************)
(* ChatBot.execute_tool                                                    *)
(***************************************************************************)
\* the index of the most recent user message, 0 when there is none
LastUserIndex(msgs) ==
    IF \E i \in 1..Len(msgs) : msgs[i].role = "user"
    THEN CHOOSE i \in 1..Len(msgs) :
             /\ msgs[i].role = "user"
             /\ \A j \in (i + 1)..Len(msgs) : msgs[j].role # "user"
    ELSE 0

\* the lower-cased text of the first user message
LastUserTextLower_First(msgs) ==
    IF LastUserIndex(msgs) = 0
    THEN <<>>
    ELSE lower(msgs[CHOOSE i \in 1..Len(msgs) :
                       /\ msgs[i].role = "user"
                       /\ \A j \in 1..(i - 1) : msgs[j].role # "user"].content)

\* text = (last_user.get("content") if last_user else "") or ""; text.lower()
LastUserTextLower(msgs) ==
    IF LastUserIndex(msgs) = 0 THEN <<>> ELSE lower(msgs[LastUserIndex(msgs)].content)

BlockedReason ==
    "Blocked: bash commands require explicit user request. Please proceed without execute_bash_command."

\* the body of the try block of execute_tool; an exception ends it
execute_tool_body(msgs, tool_name, arguments, mcp) ==
    CASE tool_name = "read_file" ->
           LET f == GetItem(arguments, "filepath")
           IN  IF f.exc THEN f ELSE agent_read_file(f.val)
      [] tool_name = "write_file" ->
           LET f == GetItem(arguments, "filepath")
               c == GetItem(arguments, "content")
               w == agent_write_file(f.val, c.val)
           IN  IF f.exc THEN f
               ELSE IF c.exc THEN c
               ELSE IF w.exc THEN w
               ELSE Ret(Str("Successfully wrote to " \o f.val))
      [] tool_name = "see_file_tree" ->
           LET d == Get(arguments, "root_dir", ".")
           IN  IF d.exc THEN d ELSE agent_see_file_tree(d.val)
      [] tool_name = "execute_bash_command" ->
           IF ~ShellPatternSearch(LastUserTextLower(msgs))
           THEN Ret(Dict("", BlockedReason, 1))
           ELSE LET c == GetItem(arguments, "command")
                    d == Get(arguments, "cwd", None)
                    r == agent_execute_bash_command(c.val, d.val)
                IN  IF c.exc THEN c
                    ELSE IF d.exc THEN d
                    ELSE IF r.exc THEN r
                    ELSE Ret(Dict(r.val[1], r.val[2], r.val[3]))
      [] tool_name = "search_in_files" ->
           LET p == GetItem(arguments, "pattern")
               d == Get(arguments, "root_dir", ".")
           IN  IF p.exc THEN p
               ELSE IF d.exc THEN d
               ELSE agent_search_in_files(p.val, d.val)
      [] tool_name = "sequentialthinking" ->
           call_sequential_thinking(arguments, mcp)
      [] OTHER -> Ret(Str("Unknown tool: " \o tool_name))

\* execute_tool: the commands with which the execute_bash_command branch calls
\* self.agent_tools.execute_bash_command, none when the branch returns or raises
\* before the call
ShellCall(msgs, tool_name, arguments) ==
    IF /\ tool_name = "execute_bash_command"
       /\ ShellPatternSearch(LastUserTextLower(msgs))
       /\ ~GetItem(arguments, "command").exc
       /\ ~Get(arguments, "cwd", None).exc
    THEN <<GetItem(arguments, "command").val>>
    ELSE <<>>

\* execute_tool: the methods of self.agent_tools, and the bridge method, that the
\* branch of tool_name calls, none when the branch returns or raises before the
\* call and none in the else branch
Invoked(msgs, tool_name, arguments) ==
    CASE tool_name = "read_file" ->
           IF GetItem(arguments, "filepath").exc THEN <<>> ELSE <<"read_file">>
      [] tool_name = "write_file" ->
           IF GetItem(arguments, "filepath").exc \/ GetItem(arguments, "content").exc
           THEN <<>>
           ELSE <<"write_file">>
      [] tool_name = "see_file_tree" ->
           IF Get(arguments, "root_dir", ".").exc THEN <<>> ELSE <<"see_file_tree">>
      [] tool_name = "execute_bash_command" ->
           IF ShellCall(msgs, tool_name, arguments) = <<>>
           THEN <<>>
           ELSE <<"execute_bash_command">>
      [] tool_name = "search_in_files" ->
           IF GetItem(arguments, "pattern").exc \/ Get(arguments, "root_dir", ".").exc
           THEN <<>>
           ELSE <<"search_in_files">>
      [] tool_name = "sequentialthinking" -> <<"_call_sequential_thinking">>
      [] OTHER -> <<>>

\* execute_tool without its except clause
execute_tool_NoExcept(msgs, tool_name, arguments, mcp) ==
    execute_tool_body(msgs, tool_name, arguments, mcp)

\* execute_tool without its sequentialthinking branch: the name falls to the else
execute_tool_NoBridge(msgs, tool_name, arguments, mcp) ==
    LET r == IF tool_name = "sequentialthinking"
             THEN Ret(Str("Unknown tool: " \o tool_name))
             ELSE execute_tool_body(msgs, tool_name, arguments, mcp)
    IN  IF r.exc
        THEN Ret(Str("Error executing " \o tool_name \o ": " \o r.msg))
        ELSE r

\* try: ... except Exception as e: return f"Error executing {tool_name}: {str(e)}"
execute_tool(msgs, tool_name, arguments, mcp) ==
    LET r == execute_tool_body(msgs, tool_name, arguments, mcp)
    IN  IF r.exc
        THEN Ret(Str("Error executing " \o tool_name \o ": " \o r.msg))
        ELSE r

(***************************************************************************)
(* ChatBot.execute_tool of coding_agent_example.py                         *)
(***************************************************************************)
\* the body of the try block
execute_tool_single_body(tool_name, arguments) ==
    CASE tool_name = "read_file" ->
           LET f == GetItem(arguments, "filepath")
           IN  IF f.exc THEN f ELSE agent_read_file(f.val)
      [] tool_name = "write_file" ->
           LET f == GetItem(arguments, "filepath")
               c == GetItem(arguments, "content")
               w == agent_write_file(f.val, c.val)
           IN  IF f.exc THEN f
               ELSE IF c.exc THEN c
               ELSE IF w.exc THEN w
               ELSE Ret(Str("Successfully wrote to " \o f.val))
      [] tool_name = "see_file_tree" ->
           LET d == Get(arguments, "root_dir", ".")
           IN  IF d.exc THEN d ELSE agent_see_file_tree(d.val)
      [] tool_name = "execute_bash_command" ->
           LET c == GetItem(arguments, "command")
               d == Get(arguments, "cwd", None)
               r == agent_execute_bash_command(c.val, d.val)
           IN  IF c.exc THEN c
               ELSE IF d.exc THEN d
               ELSE IF r.exc THEN r
               ELSE Ret(Dict(r.val[1], r.val[2], r.val[3]))
      [] tool_name = "search_in_files" ->
           LET p == GetItem(arguments, "pattern")
               d == Get(arguments, "root_dir", ".")
           IN  IF p.exc THEN p
               ELSE IF d.exc THEN d
               ELSE agent_search_in_files(p.val, d.val)
      [] OTHER -> Ret(Str("Unknown tool: " \o tool_name))

\* coding_agent_example.execute_tool: the commands with which the
\* execute_bash_command branch calls self.agent_tools.execute_bash_command
ShellCallSingle(tool_name, arguments) ==
    IF /\ tool_name = "execute_bash_command"
       /\ ~GetItem(arguments, "command").exc
       /\ ~Get(arguments, "cwd", None).exc
    THEN <<GetItem(arguments, "command").val>>
    ELSE <<>>

\* coding_agent_example.execute_tool: the methods of self.agent_tools that the
\* branch of tool_name calls
InvokedSingle(tool_name, arguments) ==
    IF tool_name = "execute_bash_command"
    THEN IF ShellCallSingle(tool_name, arguments) = <<>>
         THEN <<>>
         ELSE <<"execute_bash_command">>
    ELSE IF tool_name = "sequentialthinking"
    THEN <<>>
    ELSE Invoked(<<>>, tool_name, arguments)

\* try: ... except Exception as e: return f"Error executing {tool_name}: {str(e)}"
execute_tool_single(tool_name, arguments) ==
    LET r == execute_tool_single_body(tool_name, arguments)
    IN  IF r.exc
        THEN Ret(Str("Error executing " \o tool_name \o ": " \o r.msg))
        ELSE r

(***************************************************************************)
(* ChatBot.should_enable_tools_for_next_turn                               *)
(***************************************************************************)
\* tool_intents
tool_intents ==
    {
      <<"r","e","a","d"," ","f","i","l","e">>,
      <<"w","r","i","t","e"," ","f","i","l","e">>,
      <<"c","r","e","a","t","e"," ","f","i","l","e">>,
      <<"a","p","p","e","n","d"," ","t","o"," ","f","i","l","e">>,
      <<"s","e","a","r","c","h">>,
      <<"g","r","e","p">>,
      <<"f","i","l","e"," ","t","r","e","e">>,
      <<"d","i","r","e","c","t","o","r","y">>,
      <<"p","a","t","h">>,
      <<"o","p","e","n">>,
      <<"b","a","s","h">>,
      <<"s","h","e","l","l">>,
      <<"t","e","r","m","i","n","a","l">>,
      <<"r","u","n">>,
      <<"e","x","e","c","u","t","e">>,
      <<"n","p","m">>,
      <<"n","o","d","e">>,
      <<"t","s","-","n","o","d","e">>,
      <<"t","s","c">>,
      <<"y","a","r","n">>,
      <<"p","n","p","m">>,
      <<"p","i","p">>,
      <<"p","y","t","h","o","n">>,
      <<"p","y","t","e","s","t">>,
      <<"m","a","k","e">>,
      <<"g","r","a","d","l","e">>,
      <<"c","a","r","g","o">>,
      <<"g","o"," ","r","u","n">>,
      <<"g","o"," ","b","u","i","l","d">>,
      <<".","t","s">>,
      <<".","j","s">>,
      <<".","j","s","o","n">>,
      <<".","p","y">>,
      <<".","m","d">>,
      <<"/">>,
      <<"\\">> }

\* the decision taken on the last message of the conversation, whatever its role
should_enable_tools_LastMessage(msgs) ==
    \/ msgs = <<>>
    \/ /\ msgs[Len(msgs)].role = "user"
       /\ \E w \in tool_intents : Contains(lower(msgs[Len(msgs)].content), w)

\* the decision taken on all the user messages instead of the last one
should_enable_tools_AnyUser(msgs) ==
    \/ LastUserIndex(msgs) = 0
    \/ \E i \in 1..Len(msgs) :
          /\ msgs[i].role = "user"
          /\ \E w \in tool_intents : Contains(lower(msgs[i].content), w)

should_enable_tools_for_next_turn(msgs) ==
    IF LastUserIndex(msgs) = 0
    THEN TRUE
    ELSE \E w \in tool_intents : Contains(lower(msgs[LastUserIndex(msgs)].content), w)

(***************************************************************************)
(* The endpoint.                                                           *)
(***************************************************************************)
ReadA == [name |-> "read_file", arguments |-> Obj([filepath |-> "a.txt"])]
ReadNoKey == [name |-> "read_file", arguments |-> Obj(<<>>)]
Bash == [name |-> "execute_bash_command", arguments |-> Obj([command |-> "ls"])]
Think == [name |-> "sequentialthinking",
          arguments |-> Obj([thought |-> "t", nextThoughtNeeded |-> "false",
                             thoughtNumber |-> "1", totalThoughts |-> "1"])]
Delete == [name |-> "delete_all", arguments |-> Obj(<<>>)]
ReadB == [name |-> "read_file", arguments |-> Obj([filepath |-> "b.txt"])]
ReadNotJson == [name |-> "read_file", arguments |-> NotJson]

\* the replies of the endpoint: content and the function of each tool call
Replies ==
    { [content |-> "Paris", tool_calls |-> <<>>],
      [content |-> None, tool_calls |-> <<>>],
      [content |-> None, tool_calls |-> <<ReadA>>],
      [content |-> "", tool_calls |-> <<Bash, ReadNoKey>>],
      [content |-> "On it", tool_calls |-> <<Bash, Delete, ReadB, Think, ReadNotJson>>] }

\* the message of the n-th exchange for reply r: the endpoint numbers its tool calls
ReplyMessage(r, n) ==
    [content |-> r.content,
     tool_calls |-> [i \in 1..Len(r.tool_calls) |->
                        [id |-> <<n, i>>, function |-> r.tool_calls[i]]]]

\* str(e) of the exception of a failed endpoint call
ConnectionError == "Connection error."

\* execute without its except clause
execute_except_Reraise(e) == Raise("APIConnectionError", e)

\* execute: except Exception as e:
\*     return SimpleNamespace(content=f"Error: {e}", tool_calls=None)
execute_except(e) == Ret([content |-> "Error: " \o e, tool_calls |-> <<>>])

(***************************************************************************)
(* State.                                                                  *)
(***************************************************************************)
VARIABLES
    variant,                 \* the program of the session: "mcp" is
                             \* coding_agent_mcp_example.py, "single" is
                             \* coding_agent_example.py, "chat" is
                             \* chatbot_example.py
    messages,                \* bot.messages
    number_of_prompts_sent,  \* bot.number_of_prompts_sent
    pc,                      \* where the session is: "idle" between queries,
                             \* "await" in the endpoint call of execute, "loop" at
                             \* the top of the while loop of query, "tools" before
                             \* execute_tool, "append" after it, "raised" when an
                             \* exception has left query; in the single variant
                             \* "await2" in the second endpoint call of query and
                             \* "final" after it
    response_message,        \* query: response_message
    cycles,                  \* query: cycles
    tool_results_accum,      \* query: tool_results_accum
    idx,                     \* query: position of tool_call in response_message.tool_calls
    tool_result,             \* query: tool_result
    include_tools,           \* execute: include_tools
    outcome,                 \* what the last call of query did: Ret(value) or Raise(..)
    queries,                 \* history: calls of query so far
    replies,                 \* history: what each endpoint call of the running (or
                             \* last) query gave, [failed, message]
    start,                   \* history: Len(messages) when the running (or last)
                             \* query was called
    executed,                \* history: the ids of the tool calls that query has
                             \* passed to execute_tool, in the order of the calls
    shell_runs,              \* history: the commands that execute_tool has passed to
                             \* agent_tools.execute_bash_command
    invoked,                 \* history: the capabilities that execute_tool has called,
                             \* by the name of the method
    exchanges,               \* history: how each endpoint call of the session ended,
                             \* "completed" or "failed"
    session,                 \* _call_sequential_thinking._run: the MCP client session
                             \* of one call, NoSession outside of it
    MCP_AVAILABLE,           \* _MCP_AVAILABLE: the import of the MCP client succeeded
    launched,                \* history: the times _run has entered stdio_client, which
                             \* launches the server process
    turn,                    \* react_example.query: i (a name the formulas below bind)
    next_prompt,             \* react_example.query: next_prompt
    dispatched               \* history: the calls known_actions[action](action_input)
                             \* of the running (or last) query of react_example

vars == <<variant, messages, number_of_prompts_sent, pc, response_message, cycles,
          tool_results_accum, idx, tool_result, include_tools, outcome,
          queries, replies, start, executed, shell_runs, invoked, exchanges, session,
          MCP_AVAILABLE, launched, turn, next_prompt, dispatched>>

\* the variables of query of react_example.py
ReactVars == <<turn, next_prompt, dispatched>>

\* ChatBot.__init__: defaultSystem (its first sentence)
defaultSystem == "You are a helpful coding assistant with access to file system tools."

NoValue == "<unset>"

\* no call of _call_sequential_thinking._run is under way
NoSession == [at |-> "none"]

\* coding_agent_example.interactive_loop: ChatBot(system=...) (its first sentences)
systemSingle == "You are a helpful coding assistant with access to file system tools. You can read files."

\* react_example: bot = ChatBot(prompt) (the first sentence of prompt)
systemChat == "You run in a loop of Thought, Action, PAUSE, Observation."

\* ChatBot.__init__: self.messages = []; if self.system: self.messages.append(..)
\* (coding_agent_mcp_example: self.system = system or defaultSystem)
NewConversation(system) ==
    IF system # "" THEN <<[role |-> "system", content |-> system]>> ELSE <<>>

\* bot = ChatBot(..) in interactive_loop or query, before the first question
Init ==
    /\ variant \in {"mcp", "single", "chat"}
    /\ messages \in
          { NewConversation(system) :
              system \in CASE variant = "mcp" -> {defaultSystem}
                           [] variant = "single" -> {systemSingle}
                           [] OTHER -> {"", systemChat} }
    /\ number_of_prompts_sent = 0
    /\ pc = "idle"
    /\ response_message = NoValue
    /\ cycles = 0
    /\ tool_results_accum = <<>>
    /\ idx = 0
    /\ tool_result = NoValue
    /\ include_tools = TRUE
    /\ outcome = Ret(NoValue)
    /\ queries = 0
    /\ replies = <<>>
    /\ start = Len(messages)
    /\ executed = <<>>
    /\ shell_runs = <<>>
    /\ invoked = <<>>
    /\ exchanges = <<>>
    /\ session = NoSession
    /\ MCP_AVAILABLE \in IF variant = "mcp" THEN BOOLEAN ELSE {FALSE}
    /\ launched = 0
    /\ turn = 0
    /\ next_prompt = <<>>
    /\ dispatched = <<>>

\* execute without the increment of the counter
ExecuteBegin_NoCount(msgs, awaiting) ==
    /\ UNCHANGED number_of_prompts_sent
    /\ include_tools' = CASE variant = "mcp" -> should_enable_tools_for_next_turn(msgs)
                           [] variant = "single" -> TRUE
                           [] OTHER -> FALSE
    /\ pc' = awaiting

\* execute, up to the call of client.chat.completions.create
ExecuteBegin(msgs, awaiting) ==
    /\ number_of_prompts_sent' = number_of_prompts_sent + 1
    /\ include_tools' = CASE variant = "mcp" -> should_enable_tools_for_next_turn(msgs)
                           [] variant = "single" -> TRUE
                           [] OTHER -> FALSE
    /\ pc' = awaiting

\* list.insert(0, x) in the place of list.append(x)
list_append_Front(l, x) == <<x>> \o l

\* self.messages.append(x), bot.messages.append(x)
list_append(l, x) == Append(l, x)

\* a message of role system in the place of the user message
UserMessage_AsSystem(message) == [role |-> "system", content |-> message]

\* __call__: {"role": "user", "content": message}
UserMessage(message) == [role |-> "user", content |-> message]

\* interactive_loop: result = query(user_query, bot); query: bot(question)
Ask(question) ==
    /\ pc = "idle"
    /\ queries < MaxQueries
    /\ number_of_prompts_sent < MaxPrompts
    /\ messages' = list_append(messages, UserMessage(question))
    /\ ExecuteBegin(messages', "await")
    /\ queries' = queries + 1
    /\ start' = Len(messages)
    /\ replies' = <<>>
    /\ cycles' = 0
    /\ tool_results_accum' = <<>>
    /\ idx' = 0
    /\ UNCHANGED <<variant, response_message, tool_result, outcome>>
    /\ UNCHANGED <<executed, shell_runs, invoked,
          exchanges, session, MCP_AVAILABLE, launched>>
    /\ UNCHANGED ReactVars

\* the functions requested by a message of the endpoint
Functions(message) ==
    [i \in 1..Len(message.tool_calls) |-> message.tool_calls[i].function]

\* execute: return response.choices[0].message
EndpointReply(r) ==
    /\ pc \in {"await", "await2"}
    /\ variant = "chat" => r.tool_calls = <<>>
    /\ (r.tool_calls # <<>> /\ Len(replies) >= MaxVaried)
          => r.tool_calls = Functions(replies[Len(replies)].message)
    /\ response_message' = ReplyMessage(r, number_of_prompts_sent)
    /\ replies' = Append(replies, [failed |-> FALSE, message |-> response_message'])
    /\ pc' = IF pc = "await" THEN "loop" ELSE "final"
    /\ UNCHANGED <<variant, messages, number_of_prompts_sent, cycles, tool_results_accum,
                   idx, tool_result, include_tools, outcome, queries, start>>
    /\ exchanges' = Append(exchanges, "completed")
    /\ UNCHANGED <<executed, shell_runs, invoked, session, MCP_AVAILABLE, launched>>
    /\ UNCHANGED ReactVars

\* coding_agent_example.execute and chatbot_example.execute have no try block
execute_single_raises(e) == Raise("APIConnectionError", e)

\* execute: client.chat.completions.create raises
EndpointFail ==
    /\ pc \in {"await", "await2"}
    /\ LET r == IF variant = "mcp"
                THEN execute_except(ConnectionError)
                ELSE execute_single_raises(ConnectionError)
       IN  IF r.exc
           THEN /\ outcome' = r
                /\ pc' = "raised"
                /\ replies' = Append(replies, [failed |-> TRUE, message |-> NoValue])
                /\ UNCHANGED response_message
           ELSE /\ response_message' = r.val
                /\ replies' = Append(replies, [failed |-> TRUE, message |-> r.val])
                /\ pc' = "loop"
                /\ UNCHANGED outcome
    /\ UNCHANGED <<variant, messages, number_of_prompts_sent, cycles,
                   tool_results_accum, idx, tool_result, include_tools, queries, start>>
    /\ exchanges' = Append(exchanges, "failed")
    /\ UNCHANGED <<executed, shell_runs, invoked, session, MCP_AVAILABLE, launched>>
    /\ UNCHANGED ReactVars

\* query: if cycles >= max_tool_cycles
LimitPassed_AtLimit(c) == c >= max_tool_cycles

\* query: if cycles > max_tool_cycles
LimitPassed(c) == c > max_tool_cycles

\* the assistant message of query without its tool calls
AssistantTurn_NoCalls(response) ==
    [role |-> "assistant", content |-> OrEmpty(response.content)]

\* query: {"role": "assistant", "content": response_message.content or "",
\*         "tool_calls": response_message.tool_calls}
AssistantTurn(response) ==
    [role |-> "assistant",
     content |-> OrEmpty(response.content),
     tool_calls |-> response.tool_calls]

\* query: if response_message.tool_calls: cycles += 1, and the limit is not passed
TakeToolCalls ==
    /\ variant = "mcp"
    /\ pc = "loop"
    /\ response_message.tool_calls # <<>>
    /\ ~LimitPassed(cycles + 1)
    /\ cycles' = cycles + 1
    /\ messages' = list_append(messages, AssistantTurn(response_message))
    /\ idx' = 1
    /\ pc' = "tools"
    /\ UNCHANGED <<variant, number_of_prompts_sent, response_message,
                   tool_results_accum, tool_result, include_tools, outcome, queries,
                   replies, start>>
    /\ UNCHANGED <<executed, shell_runs, invoked,
          exchanges, session, MCP_AVAILABLE, launched>>
    /\ UNCHANGED ReactVars

\* query: if cycles > max_tool_cycles: break, and the end of the function
CycleLimit ==
    /\ variant = "mcp"
    /\ pc = "loop"
    /\ response_message.tool_calls # <<>>
    /\ LimitPassed(cycles + 1)
    /\ cycles' = cycles + 1
    /\ outcome' = Ret(None)
    /\ pc' = "idle"
    /\ UNCHANGED <<variant, messages, number_of_prompts_sent, response_message,
                   tool_results_accum, idx, tool_result, include_tools, queries,
                   replies, start>>
    /\ UNCHANGED <<executed, shell_runs, invoked,
          exchanges, session, MCP_AVAILABLE, launched>>
    /\ UNCHANGED ReactVars

FallbackNote ==
    "No final model answer was returned. Here's the latest Sequential Thinking result:\n"

\* the content of the reply alone, without the fallback summary
FinalContent_NoFallback(response, accum) == OrEmpty(response.content)

\* the fallback summary built on the first tool result
FinalContent_First(response, accum) ==
    IF OrEmpty(response.content) = "" /\ accum # <<>>
    THEN FallbackNote \o accum[1]
    ELSE OrEmpty(response.content)

\* query: the content that is appended and returned when there are no tool calls
FinalContent(response, accum) ==
    IF OrEmpty(response.content) = "" /\ accum # <<>>
    THEN FallbackNote \o accum[Len(accum)]
    ELSE OrEmpty(response.content)

\* query: no tool calls, append the assistant message and return its content
FinalAnswer ==
    /\ variant = "mcp"
    /\ pc = "loop"
    /\ response_message.tool_calls = <<>>
    /\ messages' = list_append(messages,
                      [role |-> "assistant",
                       content |-> FinalContent(response_message, tool_results_accum)])
    /\ outcome' = Ret(FinalContent(response_message, tool_results_accum))
    /\ pc' = "idle"
    /\ UNCHANGED <<variant, number_of_prompts_sent, response_message, cycles,
                   tool_results_accum, idx, tool_result, include_tools, queries,
                   replies, start>>
    /\ UNCHANGED <<executed, shell_runs, invoked,
          exchanges, session, MCP_AVAILABLE, launched>>
    /\ UNCHANGED ReactVars

\* coding_agent_example.query: if response_message.tool_calls, append the
\* assistant message
SingleToolCalls ==
    /\ variant = "single"
    /\ pc = "loop"
    /\ response_message.tool_calls # <<>>
    /\ messages' = list_append(messages,
                      [role |-> "assistant",
                       content |-> response_message.content,
                       tool_calls |-> response_message.tool_calls])
    /\ idx' = 1
    /\ pc' = "tools"
    /\ UNCHANGED <<variant, number_of_prompts_sent, response_message, cycles,
                   tool_results_accum, tool_result, include_tools, outcome, queries,
                   replies, start>>
    /\ UNCHANGED <<executed, shell_runs, invoked,
          exchanges, session, MCP_AVAILABLE, launched>>
    /\ UNCHANGED ReactVars

\* coding_agent_example.query: append the content of the first response without
\* tool calls, or of final_response, and return it
SingleAnswer ==
    /\ variant = "single"
    /\ \/ pc = "loop" /\ response_message.tool_calls = <<>>
       \/ pc = "final"
    /\ messages' = list_append(messages,
                      [role |-> "assistant", content |-> response_message.content])
    /\ outcome' = Ret(response_message.content)
    /\ pc' = "idle"
    /\ UNCHANGED <<variant, number_of_prompts_sent, response_message, cycles,
                   tool_results_accum, idx, tool_result, include_tools, queries,
                   replies, start>>
    /\ UNCHANGED <<executed, shell_runs, invoked,
          exchanges, session, MCP_AVAILABLE, launched>>
    /\ UNCHANGED ReactVars

\* chatbot_example.__call__: self.messages.append({"role": "assistant",
\* "content": result}); return result
ChatAnswer ==
    /\ variant = "chat"
    /\ pc = "loop"
    /\ messages' = list_append(messages,
                      [role |-> "assistant", content |-> response_message.content])
    /\ outcome' = Ret(response_message.content)
    /\ pc' = "idle"
    /\ UNCHANGED <<variant, number_of_prompts_sent, response_message, cycles,
                   tool_results_accum, idx, tool_result, include_tools, queries,
                   replies, start>>
    /\ UNCHANGED <<executed, shell_runs, invoked,
          exchanges, session, MCP_AVAILABLE, launched>>
    /\ UNCHANGED ReactVars

\* query: function_args = json.loads(..); tool_result = bot.execute_tool(..)
ExecTool ==
    /\ pc = "tools"
    /\ LET call == response_message.tool_calls[idx].function
           args == json_loads(call.arguments)
       IN  IF args.exc
           THEN /\ outcome' = args
                /\ pc' = "raised"
                /\ UNCHANGED <<tool_result, executed, shell_runs, invoked, launched>>
           ELSE \E mcp \in IF call.name = "sequentialthinking" /\ variant = "mcp"
                           THEN BridgeOutcomes(MCP_AVAILABLE) ELSE {"unavailable"} :
                  LET r == IF variant = "mcp"
                           THEN execute_tool(messages, call.name, args.val, mcp)
                           ELSE execute_tool_single(call.name, args.val)
                  IN  /\ executed' = Append(executed, response_message.tool_calls[idx].id)
                      /\ launched' = launched + Launches(call.name, mcp)
                      /\ shell_runs' = shell_runs \o
                             (IF variant = "mcp"
                              THEN ShellCall(messages, call.name, args.val)
                              ELSE ShellCallSingle(call.name, args.val))
                      /\ invoked' = invoked \o
                             (IF variant = "mcp"
                              THEN Invoked(messages, call.name, args.val)
                              ELSE InvokedSingle(call.name, args.val))
                      /\ IF r.exc
                         THEN /\ outcome' = r
                              /\ pc' = "raised"
                              /\ UNCHANGED tool_result
                         ELSE /\ tool_result' = r.val
                              /\ pc' = "append"
                              /\ UNCHANGED outcome
    /\ UNCHANGED <<variant, messages, number_of_prompts_sent, response_message,
                   cycles, tool_results_accum, idx, include_tools, queries, replies,
                   start, exchanges, session, MCP_AVAILABLE>>
    /\ UNCHANGED ReactVars

\* query: {"role": "tool", "content": display, "tool_call_id": tool_call.id}
ToolMessage(display, tool_call) ==
    [role |-> "tool", content |-> display, tool_call_id |-> tool_call.id]

\* query: tool_results_accum.append(display); bot.messages.append({"role": "tool", ..});
\* after the last tool call, response_message = bot.execute()
\* (coding_agent_example.query keeps no tool_results_accum and renders without
\* indent; after the last tool call, final_response = bot.execute())
AppendTool ==
    /\ pc = "append"
    /\ IF variant = "mcp"
       THEN /\ tool_results_accum' = Append(tool_results_accum, Display(tool_result))
            /\ messages' = list_append(messages,
                   ToolMessage(Display(tool_result), response_message.tool_calls[idx]))
       ELSE /\ UNCHANGED tool_results_accum
            /\ messages' = list_append(messages,
                   ToolMessage(DisplaySingle(tool_result), response_message.tool_calls[idx]))
    /\ IF idx < Len(response_message.tool_calls)
       THEN /\ idx' = idx + 1
            /\ pc' = "tools"
            /\ UNCHANGED <<number_of_prompts_sent, include_tools>>
       ELSE /\ ExecuteBegin(messages', IF variant = "mcp" THEN "await" ELSE "await2")
            /\ UNCHANGED idx
    /\ UNCHANGED <<variant, response_message, cycles, tool_result, outcome, queries,
                   replies, start>>
    /\ UNCHANGED <<executed, shell_runs, invoked,
          exchanges, session, MCP_AVAILABLE, launched>>
    /\ UNCHANGED ReactVars

Next ==
    \/ \E question \in UserTexts : Ask(question)
    \/ \E r \in Replies : EndpointReply(r)
    \/ EndpointFail
    \/ TakeToolCalls
    \/ CycleLimit
    \/ FinalAnswer
    \/ SingleToolCalls
    \/ SingleAnswer
    \/ ChatAnswer
    \/ ExecTool
    \/ AppendTool

Spec == Init /\ [][Next]_vars

(***************************************************************************)
(* The two gates on their own: should_enable_tools_for_next_turn and the   *)
(* execute_bash_command branch of execute_tool of                          *)
(* coding_agent_mcp_example.py, applied to conversations that grow by the  *)
(* messages __call__ and query append.  pc is "gate" while the             *)
(* conversation grows, "decided" when should_enable_tools_for_next_turn    *)
(* has just returned into include_tools, and "shelled" when execute_tool   *)
(* has just returned into tool_result.                                     *)
(***************************************************************************)
GateInit ==
    /\ variant = "mcp"
    /\ messages = NewConversation(defaultSystem)
    /\ number_of_prompts_sent = 0
    /\ pc = "gate"
    /\ response_message = NoValue
    /\ cycles = 0
    /\ tool_results_accum = <<>>
    /\ idx = 0
    /\ tool_result = NoValue
    /\ include_tools = TRUE
    /\ outcome = Ret(NoValue)
    /\ queries = 0
    /\ replies = <<>>
    /\ start = 1
    /\ executed = <<>>
    /\ shell_runs = <<>>
    /\ invoked = <<>>
    /\ exchanges = <<>>
    /\ session = NoSession
    /\ MCP_AVAILABLE = TRUE
    /\ launched = 0
    /\ turn = 0
    /\ next_prompt = <<>>
    /\ dispatched = <<>>

\* what the gate steps leave alone
GateRest ==
    <<variant, number_of_prompts_sent, response_message, cycles, tool_results_accum,
      idx, outcome, queries, replies, start, executed, exchanges, session,
      MCP_AVAILABLE, launched, turn, next_prompt, dispatched>>

\* the words of the two gates as the text of a message that is not a user message
MarkerText == <<"r","u","n"," ","b","a","s","h"," ","g","r","e","p">>

\* __call__: self.messages.append({"role": "user", "content": message})
GateUser(text) ==
    /\ Len(messages) < 1 + MaxLen
    /\ messages' = list_append(messages, UserMessage(text))
    /\ pc' = "gate"
    /\ UNCHANGED <<GateRest, include_tools, tool_result, shell_runs, invoked>>

\* query: bot.messages.append({"role": "assistant", "content": content})
GateAssistant ==
    /\ Len(messages) < 1 + MaxLen
    /\ LastUserIndex(messages) > 0
    /\ messages' = list_append(messages, [role |-> "assistant", content |-> MarkerText])
    /\ pc' = "gate"
    /\ UNCHANGED <<GateRest, include_tools, tool_result, shell_runs, invoked>>

\* query: the assistant message of a tool round and the tool message of its call
GateToolRound ==
    /\ Len(messages) + 1 < 1 + MaxLen
    /\ LastUserIndex(messages) > 0
    /\ messages' = list_append(
           list_append(messages,
               [role |-> "assistant", content |-> "",
                tool_calls |-> <<[id |-> <<Len(messages), 1>>, function |-> Bash]>>]),
           [role |-> "tool", content |-> MarkerText,
            tool_call_id |-> <<Len(messages), 1>>])
    /\ pc' = "gate"
    /\ UNCHANGED <<GateRest, include_tools, tool_result, shell_runs, invoked>>

\* an evaluation of the exposure decision that counts a prompt, as execute does
GateExpose_Counting ==
    /\ pc = "gate"
    /\ include_tools' = should_enable_tools_for_next_turn(messages)
    /\ number_of_prompts_sent' = number_of_prompts_sent + 1
    /\ pc' = "decided"
    /\ UNCHANGED <<variant, response_message, cycles, tool_results_accum, idx, outcome,
                   queries, replies, start, executed, exchanges, session, MCP_AVAILABLE,
                   launched, ReactVars, messages, tool_result, shell_runs, invoked>>

\* execute: include_tools = self.should_enable_tools_for_next_turn()
GateExpose ==
    /\ pc = "gate"
    /\ include_tools' = should_enable_tools_for_next_turn(messages)
    /\ pc' = "decided"
    /\ UNCHANGED <<GateRest, messages, tool_result, shell_runs, invoked>>

\* query: tool_result = bot.execute_tool("execute_bash_command", function_args)
GateShell(arguments) ==
    /\ pc = "gate"
    /\ tool_result' = execute_tool(messages, "execute_bash_command", arguments,
                                   "unavailable").val
    /\ shell_runs' = shell_runs \o ShellCall(messages, "execute_bash_command", arguments)
    /\ invoked' = invoked \o Invoked(messages, "execute_bash_command", arguments)
    /\ pc' = "shelled"
    /\ UNCHANGED <<GateRest, messages, include_tools>>

\* should_enable_tools_for_next_turn is evaluated once more on the same conversation
GateExposeAgain ==
    /\ pc = "decided"
    /\ include_tools' = should_enable_tools_for_next_turn(messages)
    /\ pc' = "decided_again"
    /\ UNCHANGED <<GateRest, messages, tool_result, shell_runs, invoked>>

\* execute_tool("execute_bash_command", ..) is called once more on the same
\* conversation
GateShellAgain(arguments) ==
    /\ pc = "shelled"
    /\ tool_result' = execute_tool(messages, "execute_bash_command", arguments,
                                   "unavailable").val
    /\ shell_runs' = shell_runs \o ShellCall(messages, "execute_bash_command", arguments)
    /\ invoked' = invoked \o Invoked(messages, "execute_bash_command", arguments)
    /\ pc' = "shelled_again"
    /\ UNCHANGED <<GateRest, messages, include_tools>>

GateNext ==
    \/ \E text \in GateTexts : GateUser(text)
    \/ GateAssistant
    \/ GateToolRound
    \/ GateExpose
    \/ \E arguments \in {Obj([command |-> "ls"]), Obj(<<>>)} : GateShell(arguments)

GateSpec == GateInit /\ [][GateNext]_vars

\* the two gates evaluated twice in a row: the conversation grows, then one of the
\* gates is evaluated on it, and evaluated again ("decided_again", "shelled_again")
PureNext ==
    \/ pc = "gate" /\ \E text \in GateTexts : GateUser(text)
    \/ pc = "gate" /\ GateAssistant
    \/ pc = "gate" /\ GateToolRound
    \/ GateExpose
    \/ \E arguments \in {Obj([command |-> "ls"]), Obj(<<>>)} : GateShell(arguments)
    \/ GateExposeAgain
    \/ \E arguments \in {Obj([command |-> "ls"]), Obj(<<>>)} : GateShellAgain(arguments)

PureSpec == GateInit /\ [][PureNext]_vars

(***************************************************************************)
(* The fallback summary of query on its own: the last lines of query are   *)
(* applied to a reply without content and without tool calls and to a      *)
(* history of tool results.  pc is "synth0" before the first summary and   *)
(* "synth1" after it, "cut" when the history has then lost all but its     *)
(* last result, and after the second summary "again" (same history) or     *)
(* "again_cut" (history cut down).                                         *)
(***************************************************************************)
\* the texts query renders for the tool results of the model
ToolTexts ==
    { Display(Str("hello")),
      Display(Dict("", BlockedReason, 1)),
      Display(Str("Unknown tool: delete_all")),
      Display(Str("Error executing read_file: 'filepath'")) }

\* the histories of tool results, of one to MaxLen results
ToolHistories ==
    UNION { [1..n -> ToolTexts] : n \in 1..MaxLen }

FallbackInit ==
    /\ variant = "mcp"
    /\ messages = NewConversation(defaultSystem)
    /\ number_of_prompts_sent = 0
    /\ pc = "synth0"
    /\ response_message \in { ReplyMessage([content |-> c, tool_calls |-> <<>>], 1) :
                                  c \in {None, ""} }
    /\ cycles = 0
    /\ tool_results_accum \in ToolHistories
    /\ idx = 0
    /\ tool_result = NoValue
    /\ include_tools = TRUE
    /\ outcome = Ret(NoValue)
    /\ queries = 0
    /\ replies = <<>>
    /\ start = Len(messages)
    /\ executed = <<>>
    /\ shell_runs = <<>>
    /\ invoked = <<>>
    /\ exchanges = <<>>
    /\ session = NoSession
    /\ MCP_AVAILABLE = TRUE
    /\ launched = 0
    /\ turn = 0
    /\ next_prompt = <<>>
    /\ dispatched = <<>>

\* what the steps of the summary leave alone
FallbackRest ==
    <<variant, messages, number_of_prompts_sent, response_message, cycles, idx,
      tool_result, include_tools, queries, replies, start, executed, shell_runs, invoked,
            
      exchanges, session, MCP_AVAILABLE, launched, turn, next_prompt, dispatched>>

\* query: content = response_message.content or ""; if not content and
\* tool_results_accum: content = <note> + tool_results_accum[-1]; return content
Synthesize ==
    /\ pc \in {"synth0", "synth1", "cut"}
    /\ outcome' = Ret(FinalContent(response_message, tool_results_accum))
    /\ pc' = CASE pc = "synth0" -> "synth1"
                [] pc = "synth1" -> "again"
                [] OTHER -> "again_cut"
    /\ UNCHANGED <<FallbackRest, tool_results_accum>>

\* the history is cut down to its last result: last = tool_results_accum[-1]
KeepLast ==
    /\ pc = "synth1"
    /\ Len(tool_results_accum) > 1
    /\ tool_results_accum' = <<tool_results_accum[Len(tool_results_accum)]>>
    /\ pc' = "cut"
    /\ UNCHANGED <<FallbackRest, outcome>>

FallbackNext == Synthesize \/ KeepLast

FallbackSpec == FallbackInit /\ [][FallbackNext]_vars

(***************************************************************************)
(* ChatBot._call_sequential_thinking._run: the resolution of the tool name *)
(* against the MCP server.  Tool names are sequences of one-character      *)
(* strings.  The server lists its tools, or the listing raises; it answers *)
(* each call_tool by a result, by a text that holds "Unknown tool:", or by *)
(* an exception.                                                           *)
(***************************************************************************)
\* name.replace(ch, "")
RECURSIVE Remove(_, _)
Remove(name, ch) ==
    IF name = <<>>
    THEN <<>>
    ELSE IF Head(name) = ch
         THEN Remove(Tail(name), ch)
         ELSE <<Head(name)>> \o Remove(Tail(name), ch)

\* a normalisation that keeps the case of the letters
norm_KeepCase(name) == Remove(Remove(name, "_"), "-")

\* _norm: name.replace("_", "").replace("-", "").lower()
norm(name) == lower(Remove(Remove(name, "_"), "-"))

\* "sequentialthinking", "sequential-thinking", "sequential_thinking"
NamePlain == <<"s","e","q","u","e","n","t","i","a","l","t","h","i","n","k","i","n","g">>
NameHyphen == <<"s","e","q","u","e","n","t","i","a","l","-","t","h","i","n","k","i","n","g">>
NameUnderscore == <<"s","e","q","u","e","n","t","i","a","l","_","t","h","i","n","k","i","n","g">>

\* names a server may list: one that differs from the three above by case and
\* separator, and two of other tools
NameMixed == <<"S","e","q","u","e","n","t","i","a","l","_","T","h","i","n","k","i","n","g">>
NameThink == <<"t","h","i","n","k">>
NameEcho == <<"e","c","h","o">>

\* desired_norm = _norm("sequentialthinking")
desired_norm == norm(NamePlain)

\* candidates = ["sequentialthinking", "sequential-thinking", "sequential_thinking"]
candidates == <<NamePlain, NameHyphen, NameUnderscore>>

\* the elements of a list
Elements(l) == {l[i] : i \in 1..Len(l)}

\* [n for n in l if n not in excluded]
RECURSIVE NotIn(_, _)
NotIn(l, excluded) ==
    IF l = <<>>
    THEN <<>>
    ELSE IF Head(l) \in excluded
         THEN NotIn(Tail(l), excluded)
         ELSE <<Head(l)>> \o NotIn(Tail(l), excluded)

\* match = next((n for n in available if _norm(n) == desired_norm), None)
Match(available) ==
    IF \E i \in 1..Len(available) : norm(available[i]) = desired_norm
    THEN available[CHOOSE i \in 1..Len(available) :
                      /\ norm(available[i]) = desired_norm
                      /\ \A j \in 1..(i - 1) : norm(available[j]) # desired_norm]
    ELSE None

\* the names of the for loop, [chosen_name] + [c for c in candidates if c != chosen_name],
\* after the try block around session.list_tools(); listed is FALSE when it raised
TryOrder(listed, available) ==
    LET match == IF listed THEN Match(available) ELSE None
        chosen_name == IF match # None THEN match ELSE NamePlain
        all == IF listed /\ match = None
               THEN candidates \o NotIn(available, Elements(candidates))
               ELSE candidates
    IN  <<chosen_name>> \o NotIn(all, {chosen_name})

\* the lists of tools a server gives, each name once, of up to MaxLen names
ServerLists ==
    { l \in UNION { [1..n -> {NameMixed, NameHyphen, NameThink, NameEcho}] : n \in 0..MaxLen } :
        \A i, j \in 1..Len(l) : i # j => l[i] # l[j] }

\* what the server does on one call_tool
CallOutcomes == {"result", "unknown_tool_text", "raises"}

BridgeInit ==
    /\ variant = "mcp"
    /\ messages = NewConversation(defaultSystem)
    /\ number_of_prompts_sent = 0
    /\ pc = "bridge"
    /\ response_message = NoValue
    /\ cycles = 0
    /\ tool_results_accum = <<>>
    /\ idx = 0
    /\ tool_result = NoValue
    /\ include_tools = TRUE
    /\ outcome = Ret(NoValue)
    /\ queries = 0
    /\ replies = <<>>
    /\ start = Len(messages)
    /\ executed = <<>>
    /\ shell_runs = <<>>
    /\ invoked = <<>>
    /\ exchanges = <<>>
    /\ session \in { [at |-> "initialized", listed |-> listed, available |-> l,
                       names |-> <<>>, called |-> <<>>, chosen_name |-> NamePlain] :
                        listed \in BOOLEAN, l \in ServerLists }
    /\ MCP_AVAILABLE = TRUE
    /\ launched = 1
    /\ turn = 0
    /\ next_prompt = <<>>
    /\ dispatched = <<>>

\* what the steps of the bridge leave alone
BridgeRest ==
    <<variant, messages, number_of_prompts_sent, pc, response_message, cycles,
      tool_results_accum, idx, tool_result, include_tools, outcome, queries, replies,
      start, executed, shell_runs, invoked,
            exchanges, MCP_AVAILABLE, launched, turn, next_prompt,
      dispatched>>

\* _run: tools = await session.list_tools() in its try block, and the list of the
\* for loop
ListTools ==
    /\ session.at = "initialized"
    /\ session' = [session EXCEPT !.at = "calling",
                                   !.names = TryOrder(session.listed, session.available)]
    /\ UNCHANGED BridgeRest

\* _run: one turn of the for loop, result = await session.call_tool(name, ..)
CallTool(answer) ==
    /\ session.at = "calling"
    /\ Len(session.called) < Len(session.names)
    /\ LET name == session.names[Len(session.called) + 1]
       IN  session' = [session EXCEPT
                          !.called = Append(@, [name |-> name, answer |-> answer]),
                          !.chosen_name = IF answer = "result" THEN name ELSE @,
                          !.at = IF answer = "result" THEN "success" ELSE @]
    /\ UNCHANGED BridgeRest

\* _run: the else clause of the for loop, raise last_err
Exhausted ==
    /\ session.at = "calling"
    /\ Len(session.called) = Len(session.names)
    /\ session' = [session EXCEPT !.at = "exhausted"]
    /\ UNCHANGED BridgeRest

BridgeNext ==
    \/ ListTools
    \/ \E answer \in CallOutcomes : CallTool(answer)
    \/ Exhausted

BridgeSpec == BridgeInit /\ [][BridgeNext]_vars

(***************************************************************************)
(* ChatBot._call_sequential_thinking as a whole, called by execute_tool    *)
(* for the tool calls of one reply.  pc is "tools" before execute_tool is  *)
(* called for the tool call at idx, "thinking" while _run is inside its    *)
(* try block, "unwound" when the async with blocks have been left with a   *)
(* value or an exception (held by outcome), and "append" when execute_tool *)
(* has returned into tool_result.  The steps of the name resolution are    *)
(* ListTools, CallTool and Exhausted above.                                *)
(***************************************************************************)
\* the tool calls of the replies execute_tool is called for
ThinkTurns ==
    { <<Think>>, <<Think, Think>>, <<ReadA, Think>>, <<Think, Bash>>, <<Delete, ReadA>> }

\* what entering stdio_client and ClientSession does: the server process runs, or
\* npx is not found
LaunchOutcomes == {"started", "FileNotFoundError"}

\* what a successful result of call_tool holds: structuredContent, texts, nothing
ResultKinds == {"structured", "texts", "empty"}

\* _run: return structured; return "\n".join(texts) if texts else "(no content)"
Structured == [t |-> "structured", thoughtNumber |-> 1]

ResultValue(kind) ==
    CASE kind = "structured" -> Structured
      [] kind = "texts" -> Str("thought 1")
      [] OTHER -> Str("(no content)")

InstallMessage == "MCP client not installed. Please install the Python SDK."
LaunchFailedMessage == "Failed to launch MCP server via npx."

\* the async with blocks left without closing the session
async_with_exit_Keep(s) == s

\* the exits of async with ClientSession(..) and async with stdio_client(..): the
\* session is closed and the server process is ended
async_with_exit(s) == NoSession

\* _run: except FileNotFoundError: return ..; except Exception as e: return ..
except_clauses(o) ==
    IF ~o.exc
    THEN o
    ELSE IF o.type = "FileNotFoundError"
         THEN Ret(Str(LaunchFailedMessage))
         ELSE Ret(Str("Error calling sequentialthinking via MCP: " \o o.msg))

ThinkInit ==
    /\ variant = "mcp"
    /\ messages = list_append(NewConversation(defaultSystem),
                              UserMessage(<<"t","h","i","n","k">>))
    /\ number_of_prompts_sent = 1
    /\ pc = "tools"
    /\ response_message \in { ReplyMessage([content |-> "", tool_calls |-> calls], 1) :
                                  calls \in ThinkTurns }
    /\ cycles = 1
    /\ tool_results_accum = <<>>
    /\ idx = 1
    /\ tool_result = NoValue
    /\ include_tools = FALSE
    /\ outcome = Ret(NoValue)
    /\ queries = 1
    /\ replies = <<>>
    /\ start = 1
    /\ executed = <<>>
    /\ shell_runs = <<>>
    /\ invoked = <<>>
    /\ exchanges = <<"completed">>
    /\ session = NoSession
    /\ MCP_AVAILABLE \in BOOLEAN
    /\ launched = 0
    /\ turn = 0
    /\ next_prompt = <<>>
    /\ dispatched = <<>>

\* what no step of ThinkSpec changes
ThinkRest ==
    <<variant, messages, number_of_prompts_sent, response_message, cycles,
      tool_results_accum, include_tools, queries, replies, start, exchanges,
      MCP_AVAILABLE, turn, next_prompt, dispatched>>

\* query: tool_result = bot.execute_tool(function_name, function_args), up to the
\* return of execute_tool or to the call of asyncio.run(_run())
ThinkExecute ==
    /\ pc = "tools"
    /\ LET call == response_message.tool_calls[idx].function
           args == json_loads(call.arguments).val
       IN  /\ executed' = Append(executed, response_message.tool_calls[idx].id)
           /\ shell_runs' = shell_runs \o ShellCall(messages, call.name, args)
           /\ invoked' = invoked \o Invoked(messages, call.name, args)
           /\ IF call.name = "sequentialthinking" /\ MCP_AVAILABLE
              THEN /\ pc' = "thinking"
                   /\ UNCHANGED tool_result
              ELSE /\ tool_result' = execute_tool(messages, call.name, args,
                                                  "unavailable").val
                   /\ pc' = "append"
    /\ UNCHANGED <<ThinkRest, idx, outcome, session, launched>>

\* _run: async with stdio_client(server_params), async with ClientSession(..)
Launch(o) ==
    /\ pc = "thinking"
    /\ session.at = "none"
    /\ launched' = launched + 1
    /\ IF o = "started"
       THEN /\ \E listed \in BOOLEAN, l \in ServerLists :
                 session' = [at |-> "connected", listed |-> listed, available |-> l,
                             names |-> <<>>, called |-> <<>>, chosen_name |-> NamePlain]
            /\ UNCHANGED <<pc, outcome>>
       ELSE /\ outcome' = Raise("FileNotFoundError", "npx")
            /\ pc' = "unwound"
            /\ UNCHANGED session
    /\ UNCHANGED <<ThinkRest, idx, tool_result, executed, shell_runs, invoked>>

\* _run: await session.initialize()
Initialize(ok) ==
    /\ pc = "thinking"
    /\ session.at = "connected"
    /\ IF ok
       THEN /\ session' = [session EXCEPT !.at = "initialized"]
            /\ UNCHANGED <<pc, outcome>>
       ELSE /\ outcome' = Raise("Exception", "initialize failed")
            /\ session' = async_with_exit(session)
            /\ pc' = "unwound"
    /\ UNCHANGED <<ThinkRest, idx, tool_result, executed, shell_runs, invoked,
          launched>>

\* _run: after the for loop, the return of the result, or the raise of its else
\* clause, leaves the two async with blocks
ExitSession(kind) ==
    /\ pc = "thinking"
    /\ session.at \in {"success", "exhausted"}
    /\ outcome' = IF session.at = "success"
                  THEN Ret(ResultValue(kind))
                  ELSE Raise("RuntimeError", "Unknown tool: sequentialthinking")
    /\ session' = async_with_exit(session)
    /\ pc' = "unwound"
    /\ UNCHANGED <<ThinkRest, idx, tool_result, executed, shell_runs, invoked,
          launched>>

\* _run: its except clauses; return asyncio.run(_run()); execute_tool: its return
\* and its except clause
ThinkReturn ==
    /\ pc = "unwound"
    /\ LET r == except_clauses(outcome)
       IN  tool_result' = IF r.exc
                          THEN Str("Error executing sequentialthinking: " \o r.msg)
                          ELSE r.val
    /\ pc' = "append"
    /\ UNCHANGED <<ThinkRest, idx, outcome, executed, shell_runs, invoked,
          session, launched>>

\* query: the next tool_call of for tool_call in response_message.tool_calls
ThinkAdvance ==
    /\ pc = "append"
    /\ idx < Len(response_message.tool_calls)
    /\ idx' = idx + 1
    /\ pc' = "tools"
    /\ UNCHANGED <<ThinkRest, tool_result, outcome, executed, shell_runs, invoked,
                   session, launched>>

ThinkNext ==
    \/ ThinkExecute
    \/ \E o \in LaunchOutcomes : Launch(o)
    \/ \E ok \in BOOLEAN : Initialize(ok)
    \/ pc = "thinking" /\ ListTools
    \/ pc = "thinking" /\ \E answer \in CallOutcomes : CallTool(answer)
    \/ pc = "thinking" /\ Exhausted
    \/ \E kind \in ResultKinds : ExitSession(kind)
    \/ ThinkReturn
    \/ ThinkAdvance

ThinkSpec == ThinkInit /\ [][ThinkNext]_vars

(***************************************************************************)
(* query of react_example.py and of exercises/react_count_example.py.  The *)
(* variant is "react" or "react_count".  Texts are sequences of            *)
(* one-character strings.  pc is "idle" between queries, "while" at the    *)
(* test of the while loop, "await" in the endpoint call of bot(..), "act"  *)
(* before known_actions[action](action_input), "raised" when an exception  *)
(* has left query.                                                         *)
(***************************************************************************)
\* endpoint calls in one session of a ReAct program
MaxModelCalls == 6

\* query: max_turns=5
max_turns == 5

\* result.split('\n')
RECURSIVE Split(_)
Split(text) ==
    LET breaks == {k \in 1..Len(text) : text[k] = "\n"}
    IN  IF breaks = {}
        THEN <<text>>
        ELSE LET k == CHOOSE k \in breaks : \A j \in breaks : k <= j
             IN  <<SubSeq(text, 1, k - 1)>> \o Split(SubSeq(text, k + 1, Len(text)))

\* re: the characters of \w
WordChars ==
    {Upper[k] : k \in 1..26} \cup {Lower[k] : k \in 1..26} \cup
    {"0", "1", "2", "3", "4", "5", "6", "7", "8", "9", "_"}

\* re: \w
IsWord(c) == c \in WordChars

\* the text begins with the prefix
StartsWith(text, prefix) ==
    /\ Len(text) >= Len(prefix)
    /\ SubSeq(text, 1, Len(prefix)) = prefix

\* re: the length of the longest run of \w at the start of the text
WordRun(text) ==
    LET others == {k \in 1..Len(text) : ~IsWord(text[k])}
    IN  IF others = {}
        THEN Len(text)
        ELSE (CHOOSE k \in others : \A j \in others : k <= j) - 1

\* action_re.match(a) is None (the group of \w+ is never empty)
NoMatch == [action |-> <<>>, action_input |-> <<>>]

\* action_re.match(a), action_re = re.compile('^Action: (\w+): (.*)$'): NoMatch, or
\* the two groups
action_re_match(a) ==
    LET rest == SubSeq(a, 9, Len(a))
        n == WordRun(rest)
    IN  IF StartsWith(a, <<"A","c","t","i","o","n",":"," ">>)
           /\ n > 0 /\ StartsWith(SubSeq(rest, n + 1, Len(rest)), <<":", " ">>)
        THEN [action |-> SubSeq(rest, 1, n), action_input |-> SubSeq(rest, n + 3, Len(rest))]
        ELSE NoMatch

\* the last of the actions in the place of the first
RECURSIVE actions_Reversed(_)
actions_Reversed(lines) ==
    IF lines = <<>>
    THEN <<>>
    ELSE actions_Reversed(Tail(lines)) \o
         (IF action_re_match(Head(lines)) # NoMatch
          THEN <<action_re_match(Head(lines))>> ELSE <<>>)

\* actions = [action_re.match(a) for a in result.split('\n') if action_re.match(a)]
RECURSIVE actions(_)
actions(lines) ==
    IF lines = <<>>
    THEN <<>>
    ELSE (IF action_re_match(Head(lines)) # NoMatch
          THEN <<action_re_match(Head(lines))>> ELSE <<>>)
         \o actions(Tail(lines))

NameWikipedia == <<"w","i","k","i","p","e","d","i","a">>
NameCalculate == <<"c","a","l","c","u","l","a","t","e">>
NameCountLetters == <<"c","o","u","n","t","_","l","e","t","t","e","r","s">>

\* known_actions, by the program
known_actions ==
    IF variant = "react"
    THEN {NameWikipedia, NameCalculate}
    ELSE {NameWikipedia, NameCalculate, NameCountLetters}

\* how a call of an action ends
ActionOutcomes == {"returns", "raises"}

\* known_actions[action](action_input): what the call does.  wikipedia asks a web
\* service and takes the first hit, or raises when there is none; calculate is eval;
\* count_letters returns a sentence
known_actions_call(action, action_input, how) ==
    CASE action = NameWikipedia ->
           IF how = "returns"
           THEN Ret(<<"a"," ","s","t","a","t","e">>)
           ELSE Raise("IndexError", "list index out of range")
      [] action = NameCalculate ->
           IF action_input = <<"2","+","2">>
           THEN Ret(<<"4">>)
           ELSE Raise("SyntaxError", "invalid syntax")
      [] OTHER -> Ret(<<"3"," ","t","i","m","e","(","s",")">>)

\* "Observation: {}".format(observation)
Observation(observation) == <<"O","b","s","e","r","v","a","t","i","o","n",":"," ">> \o observation

\* the texts of the model
ReactReplies ==
    { <<"A","n","s","w","e","r",":"," ","4">>,
      <<"T","h","o","u","g","h","t",":"," ","a","d","d","\n","A","c","t","i","o","n",":"," ","c","a","l","c","u","l","a","t","e",":"," ","2","+","2","\n","P","A","U","S","E">>,
      <<"A","c","t","i","o","n",":"," ","w","i","k","i","p","e","d","i","a",":"," ","O","h","i","o","\n","A","c","t","i","o","n",":"," ","c","a","l","c","u","l","a","t","e",":"," ","2","+","2">>,
      <<"A","c","t","i","o","n",":"," ","c","a","l","c","u","l","a","t","e",":"," ","2"," ","+">>,
      <<"A","c","t","i","o","n",":"," ","f","l","y",":"," ","m","o","o","n">>,
      <<"N","e","x","t"," ","A","c","t","i","o","n",":"," ","c","a","l","c","u","l","a","t","e",":"," ","2","+","2">>,
      <<"A","c","t","i","o","n",":"," ","c","o","u","n","t","_","l","e","t","t","e","r","s",":"," ","r"," ","i","n"," ","s","t","r","a","w","b","e","r","r","y">> }

\* the questions of the user
ReactQuestions == { <<"W","h","a","t"," ","i","s"," ","2","+","2","?">> }

\* react_example.query: bot = ChatBot(prompt) at each call;
\* react_count_example.interactive_loop: bot = ChatBot(prompt), once
ReactInit ==
    /\ variant \in {"react", "react_count"}
    /\ messages = NewConversation(systemChat)
    /\ number_of_prompts_sent = 0
    /\ pc = "idle"
    /\ response_message = NoValue
    /\ cycles = 0
    /\ tool_results_accum = <<>>
    /\ idx = 0
    /\ tool_result = NoValue
    /\ include_tools = FALSE
    /\ outcome = Ret(NoValue)
    /\ queries = 0
    /\ replies = <<>>
    /\ start = Len(messages)
    /\ executed = <<>>
    /\ shell_runs = <<>>
    /\ invoked = <<>>
    /\ exchanges = <<>>
    /\ session = NoSession
    /\ MCP_AVAILABLE = FALSE
    /\ launched = 0
    /\ turn = 0
    /\ next_prompt = <<>>
    /\ dispatched = <<>>

\* what no step of the two programs changes
ReactRest ==
    <<variant, response_message, cycles, tool_results_accum, idx, tool_result,
      include_tools, executed, shell_runs, invoked, session, MCP_AVAILABLE, launched>>

\* a loop whose body leaves the counter alone
NextTurn_NotCounted(v, n) == n

\* while i < max_turns: the counter after the first statements of the body
NextTurn(v, n) == IF v = "react" THEN n + 1 ELSE n

\* interactive_loop: query(user_query) or query(user_query, bot), up to the while
\* loop
ReactAsk(question) ==
    /\ pc = "idle"
    /\ queries < MaxQueries
    /\ Len(exchanges) + max_turns <= MaxModelCalls
    /\ messages' = IF variant = "react" THEN NewConversation(systemChat) ELSE messages
    /\ start' = Len(messages')
    /\ turn' = 0
    /\ next_prompt' = question
    /\ queries' = queries + 1
    /\ replies' = <<>>
    /\ dispatched' = <<>>
    /\ pc' = "while"
    /\ UNCHANGED <<ReactRest, number_of_prompts_sent, outcome, exchanges>>

\* query: while i < max_turns: .. result = bot(next_prompt), up to the endpoint
\* call of execute
ReactCall ==
    /\ pc = "while"
    /\ turn < max_turns
    /\ Len(exchanges) < MaxModelCalls
    /\ turn' = NextTurn(variant, turn)
    /\ messages' = list_append(messages, UserMessage(next_prompt))
    /\ number_of_prompts_sent' =
          IF variant = "react_count" THEN number_of_prompts_sent + 1
          ELSE number_of_prompts_sent
    /\ pc' = "await"
    /\ UNCHANGED <<ReactRest, next_prompt, outcome, queries, replies, start, exchanges,
                   dispatched>>

\* query: the while loop ends, the function returns None
ReactLoopEnd ==
    /\ pc = "while"
    /\ ~(turn < max_turns)
    /\ outcome' = Ret(None)
    /\ pc' = "idle"
    /\ UNCHANGED <<ReactRest, messages, number_of_prompts_sent, turn, next_prompt, queries,
                   replies, start, exchanges, dispatched>>

\* __call__: the assistant message is appended; query: the actions of result;
\* return when there is none, raise when the first is not in known_actions
ReactReply(result) ==
    /\ pc = "await"
    /\ messages' = list_append(messages, [role |-> "assistant", content |-> result])
    /\ replies' = Append(replies, [failed |-> FALSE, message |-> result])
    /\ exchanges' = Append(exchanges, "completed")
    /\ LET found == actions(Split(result))
       IN  IF found = <<>>
           THEN /\ outcome' = Ret(None)
                /\ pc' = "idle"
           ELSE IF found[1].action \notin known_actions
                THEN /\ outcome' = Raise("Exception", "Unknown action")
                     /\ pc' = "raised"
                ELSE /\ pc' = "act"
                     /\ UNCHANGED outcome
    /\ UNCHANGED <<ReactRest, number_of_prompts_sent, turn, next_prompt, queries, start,
                   dispatched>>

\* execute: client.chat.completions.create raises, and execute has no try block
ReactFail ==
    /\ pc = "await"
    /\ replies' = Append(replies, [failed |-> TRUE, message |-> NoValue])
    /\ exchanges' = Append(exchanges, "failed")
    /\ outcome' = execute_single_raises(ConnectionError)
    /\ pc' = "raised"
    /\ UNCHANGED <<ReactRest, messages, number_of_prompts_sent, turn, next_prompt, queries,
                   start, dispatched>>

\* query: action, action_input = actions[0].groups();
\* observation = known_actions[action](action_input);
\* next_prompt = "Observation: {}".format(observation)
ReactAct ==
    /\ pc = "act"
    /\ LET first == actions(Split(replies[Len(replies)].message))[1]
       IN  \E how \in ActionOutcomes :
            LET o == known_actions_call(first.action, first.action_input, how) IN
              /\ dispatched' = Append(dispatched,
                                  [reply |-> Len(replies), action |-> first.action,
                                   action_input |-> first.action_input, result |-> o])
              /\ IF o.exc
                 THEN /\ outcome' = o
                      /\ pc' = "raised"
                      /\ UNCHANGED next_prompt
                 ELSE /\ next_prompt' = Observation(o.val)
                      /\ pc' = "while"
                      /\ UNCHANGED outcome
    /\ UNCHANGED <<ReactRest, messages, number_of_prompts_sent, turn, queries, replies,
                   start, exchanges>>

ReactNext ==
    \/ \E question \in ReactQuestions : ReactAsk(question)
    \/ ReactCall
    \/ ReactLoopEnd
    \/ \E result \in ReactReplies : ReactReply(result)
    \/ ReactFail
    \/ ReactAct

ReactSpec == ReactInit /\ [][ReactNext]_vars

(***************************************************************************)
(* What the properties below speak of.                                     *)
(***************************************************************************)
\* the session runs coding_agent_mcp_example.py
Mcp == variant = "mcp"

\* the endpoint calls of the running (or last) query offered the tool catalog
Offered == include_tools

\* a call of query has ended by a return
Returned == pc = "idle" /\ queries > 0

\* a call of query has ended, by a return or by an exception
Ended == Returned \/ pc = "raised"

\* endpoint calls issued by the running (or last) query
EndpointCalls == Len(replies) + (IF pc \in {"await", "await2"} THEN 1 ELSE 0)

\* every reply of the running (or last) query carried a tool invocation
AllRepliesRequestTools ==
    /\ replies # <<>>
    /\ \A i \in 1..Len(replies) :
          ~replies[i].failed /\ replies[i].message.tool_calls # <<>>

\* the messages appended by the running (or last) query
Appended == SubSeq(messages, start + 1, Len(messages))

\* rounds of the running (or last) query in which tool invocations were executed:
\* the assistant messages with tool calls that it appended
ToolRounds ==
    Cardinality({i \in 1..Len(Appended) :
                    Appended[i].role = "assistant" /\ "tool_calls" \in DOMAIN Appended[i]})

LastMessage == messages[Len(messages)]

\* the query returned because the cycle limit was passed
LimitReturn == Mcp /\ Returned /\ AllRepliesRequestTools

C2_FallbackAtLimit ==
    (Mcp /\ Offered /\ Returned /\ LimitPassed(cycles)) =>
        /\ outcome = Ret(FallbackNote \o tool_results_accum[Len(tool_results_accum)])
        /\ LastMessage.role = "assistant"
        /\ LastMessage.content = outcome.val

(***************************************************************************)
(* C3 (as stated): a query ends only by returning, whatever the endpoint   *)
(* replies, and it executes tool invocations in at most max_tool_cycles    *)
(* rounds.  (Stated for a query whose calls offered the tools.)            *)
(***************************************************************************)
C3_ReturnsWithinRounds ==
    (Mcp /\ Offered) =>
        /\ ToolRounds <= max_tool_cycles
        /\ pc # "raised"

\* the last reply of the running (or last) query
LastReply == replies[Len(replies)]

(***************************************************************************)
(* C4: when the first reply of a query carries no tool invocation, the     *)
(* query returns the text of the reply, "" when the content is absent, and *)
(* the conversation has grown by two messages, the user message and an     *)
(* assistant message with the returned text.                               *)
(***************************************************************************)
C4_FirstReplyWithoutCalls ==
    (Mcp /\ Returned /\ Len(replies) = 1 /\ replies[1].message.tool_calls = <<>>) =>
        LET c == replies[1].message.content
            text == IF c = None THEN "" ELSE c
        IN  /\ outcome = Ret(text)
            /\ Len(messages) = start + 2
            /\ messages[start + 1].role = "user"
            /\ messages[start + 2] = [role |-> "assistant", content |-> text]

\* C4: a second query has returned "" for a first reply without content and calls
C4_Witness ==
    /\ Mcp /\ Returned /\ queries = 2 /\ Len(replies) = 1
    /\ ~replies[1].failed
    /\ replies[1].message = [content |-> None, tool_calls |-> <<>>]
    /\ outcome = Ret("")

\* what is compared of one message: its role, its tool calls, its tool call id
Shape(m) ==
    CASE m.role = "tool" -> <<"tool", m.tool_call_id>>
      [] m.role = "assistant" ->
           IF "tool_calls" \in DOMAIN m
           THEN <<"assistant", m.content, m.tool_calls>>
           ELSE <<"assistant", m.content>>
      [] OTHER -> <<m.role>>

RECURSIVE RoundsShape(_)
\* the messages expected for the replies rs, which all request tools
RoundsShape(rs) ==
    IF rs = <<>>
    THEN <<>>
    ELSE LET r == Head(rs).message
         IN  <<<<"assistant", IF r.content = None THEN "" ELSE r.content, r.tool_calls>>>>
             \o [i \in 1..Len(r.tool_calls) |-> <<"tool", r.tool_calls[i].id>>]
             \o RoundsShape(Tail(rs))

\* the endpoint requested tools in all replies but the last, which is a text
ToolRepliesThenText ==
    /\ Len(replies) >= 2
    /\ \A i \in 1..(Len(replies) - 1) :
          ~replies[i].failed /\ replies[i].message.tool_calls # <<>>
    /\ ~LastReply.failed
    /\ LastReply.message.tool_calls = <<>>
    /\ LastReply.message.content \notin {None, ""}

(***************************************************************************)
(* C5: when the endpoint requests tools in k replies (1 <= k <=            *)
(* max_tool_cycles) and then returns non-empty text without invocations,   *)
(* the query appends, in order, the user message, for each of the k        *)
(* replies an assistant message with the reply's tool calls followed by    *)
(* one tool message per tool call, and a last assistant message with the   *)
(* returned text.                                                          *)
(***************************************************************************)
C5_ToolRoundsThenAnswer ==
    (Mcp /\ Returned /\ ToolRepliesThenText) =>
        /\ Len(replies) - 1 <= max_tool_cycles
        /\ outcome = Ret(LastReply.message.content)
        /\ [i \in 1..Len(Appended) |-> Shape(Appended[i])]
             = <<<<"user">>>>
               \o RoundsShape(SubSeq(replies, 1, Len(replies) - 1))
               \o <<<<"assistant", LastReply.message.content>>>>

\* C5: a query has returned a text after max_tool_cycles rounds of tool calls
C5_Witness ==
    Mcp /\ Returned /\ ToolRepliesThenText /\ Len(replies) = max_tool_cycles + 1

HasCalls(m) == m.role = "assistant" /\ "tool_calls" \in DOMAIN m

\* the nearest assistant message before position i, 0 when there is none
AssistantBefore(i) ==
    IF \E a \in 1..(i - 1) : messages[a].role = "assistant"
    THEN CHOOSE a \in 1..(i - 1) :
             /\ messages[a].role = "assistant"
             /\ \A b \in (a + 1)..(i - 1) : messages[b].role # "assistant"
    ELSE 0

(***************************************************************************)
(* C6 (as stated): whenever no query is running, every assistant message   *)
(* with tool calls is followed by exactly one tool message per tool call,  *)
(* in the order of the tool calls and with their ids, and every tool       *)
(* message belongs to the nearest assistant message before it and carries  *)
(* the id of exactly one of its tool calls.  (Stated for a session whose   *)
(* last query offered the tools.)                                          *)
(***************************************************************************)
C6_ToolMessagesPaired ==
    (Mcp /\ Offered /\ Ended) =>
        /\ \A a \in 1..Len(messages) :
              HasCalls(messages[a]) =>
                 LET calls == messages[a].tool_calls
                 IN  /\ a + Len(calls) <= Len(messages)
                     /\ \A j \in 1..Len(calls) :
                           /\ messages[a + j].role = "tool"
                           /\ messages[a + j].tool_call_id = calls[j].id
                     /\ a + Len(calls) < Len(messages)
                           => messages[a + Len(calls) + 1].role # "tool"
        /\ \A i \in 1..Len(messages) :
              messages[i].role = "tool" =>
                 LET a == AssistantBefore(i)
                 IN  /\ a > 0
                     /\ HasCalls(messages[a])
                     /\ Cardinality({j \in 1..Len(messages[a].tool_calls) :
                            messages[a].tool_calls[j].id = messages[i].tool_call_id}) = 1

(***************************************************************************)
(* C7: a failed endpoint call, the first of a query or a later one, does   *)
(* not leave query as an exception: query appends an assistant message     *)
(* with the error description, returns that text, and the session is ready *)
(* for the next question.                                                  *)
(***************************************************************************)
C7_EndpointFailureAnswered ==
    (Mcp /\ replies # <<>> /\ LastReply.failed) =>
        /\ pc \in {"loop", "idle"}
        /\ pc = "idle" =>
              /\ outcome = Ret("Error: " \o ConnectionError)
              /\ LastMessage = [role |-> "assistant", content |-> "Error: " \o ConnectionError]
              /\ (queries < MaxQueries /\ number_of_prompts_sent < MaxPrompts)
                    => ENABLED Ask(<<"h", "i">>)

\* C7: the first query ended by a failed call; the second one, asked after it, has
\* returned the error of a failed follow-up call
C7_Witness ==
    /\ Mcp /\ Returned /\ queries = 2
    /\ messages[start] = [role |-> "assistant", content |-> "Error: " \o ConnectionError]
    /\ Len(replies) >= 2 /\ LastReply.failed
    /\ tool_results_accum # <<>>

(***************************************************************************)
(* C8 (as stated): whatever the endpoint and the tools do, no exception    *)
(* leaves query, and a query that has returned has returned a text that is *)
(* the content of the last message, an assistant message.  (Stated for a   *)
(* query whose calls offered the tools.)                                   *)
(***************************************************************************)
C8_NoFailureEndsSession ==
    (Mcp /\ Offered) =>
        /\ pc # "raised"
        /\ Returned =>
              /\ outcome.val # None
              /\ LastMessage.role = "assistant"
              /\ LastMessage.content = outcome.val

\* get_tool_definitions: "required"
Required(tool_name) ==
    CASE tool_name = "read_file" -> {"filepath"}
      [] tool_name = "write_file" -> {"filepath", "content"}
      [] tool_name = "see_file_tree" -> {}
      [] tool_name = "execute_bash_command" -> {"command"}
      [] tool_name = "search_in_files" -> {"pattern"}
      [] tool_name = "sequentialthinking" ->
           {"thought", "nextThoughtNeeded", "thoughtNumber", "totalThoughts"}
      [] OTHER -> {}

Malformed(function) ==
    \/ function.arguments.form # "object"
    \/ \E k \in Required(function.name) : k \notin DOMAIN function.arguments.members

\* str(e) of the exceptions that malformed arguments raise
MalformedMessages ==
    { "'filepath'", "'content'", "'command'", "'pattern'",
      "list indices must be integers or slices, not str",
      "'list' object has no attribute 'get'",
      "Expecting value: line 1 column 1 (char 0)" }

\* the tool call that query has just executed
Current == response_message.tool_calls[idx]

(***************************************************************************)
(* C9 (as stated): a tool call whose arguments are malformed (not a JSON   *)
(* object, or a JSON object without a required key) gets a tool result     *)
(* that is an error description, and the loop goes on: no exception leaves *)
(* query.  (Stated for a query whose calls offered the tools.)             *)
(***************************************************************************)
C9_MalformedArgumentsReported ==
    (Mcp /\ Offered /\ pc \in {"append", "raised"} /\ Malformed(Current.function)) =>
        /\ pc = "append"
        /\ \E msg \in MalformedMessages :
              tool_result = Str("Error executing " \o Current.function.name \o ": " \o msg)

\* the names execute_tool has a branch for
Branches ==
    {"read_file", "write_file", "see_file_tree", "execute_bash_command",
     "search_in_files"} \cup (IF variant = "mcp" THEN {"sequentialthinking"} ELSE {})

\* read_file is called with the path of a file and the capability raises
ReadFails(function) ==
    /\ function.name = "read_file"
    /\ function.arguments.form = "object"
    /\ "filepath" \in DOMAIN function.arguments.members
    /\ agent_read_file(function.arguments.members.filepath).exc

\* what query holds after execute_tool: no exception of it, and the two texts
C10_Result ==
    /\ pc = "raised" => outcome.type \in {"JSONDecodeError", "APIConnectionError"}
    /\ pc = "append" =>
          /\ tool_result.t \in {"str", "dict", "list"}
          /\ Current.function.name \notin Branches
                => tool_result = Str("Unknown tool: " \o Current.function.name)
          /\ ReadFails(Current.function)
                => tool_result =
                      Str("Error executing read_file: "
                          \o agent_read_file(Current.function.arguments.members.filepath).msg)

(***************************************************************************)
(* C10: execute_tool (of both programs) never raises: the only exceptions  *)
(* that leave query come from json.loads and from the endpoint call; a     *)
(* failure raised by a capability comes back as the text                   *)
(* 'Error executing <tool name>: <message>' and a name without a branch as *)
(* 'Unknown tool: <name>'; the step that runs execute_tool leaves the      *)
(* conversation as it was.                                                 *)
(***************************************************************************)
C10_ExecuteToolNeverRaises ==
    /\ []C10_Result
    /\ [][pc = "tools" => messages' = messages]_vars

\* C10: execute_tool has answered a name without a branch, and then a read_file
\* whose capability raised
C10_Witness ==
    /\ pc = "append"
    /\ Current.function = ReadB
    /\ tool_result = Str("Error executing read_file: No such file: b.txt")
    /\ LastMessage.role = "tool"
    /\ LastMessage.content = "Unknown tool: delete_all"

\* the positions of the user messages of a conversation
UserPositions(msgs) == {i \in 1..Len(msgs) : msgs[i].role = "user"}

\* the text of the most recent user message, empty when there is none
MostRecentUserText(msgs) ==
    IF UserPositions(msgs) = {}
    THEN <<>>
    ELSE msgs[CHOOSE i \in UserPositions(msgs) :
                 \A j \in UserPositions(msgs) : j <= i].content

\* the most recent user message holds an explicit action marker
HasActionMarker(msgs) == ShellPatternSearch(lower(MostRecentUserText(msgs)))

\* the fixed denial result
Denial == Dict("", BlockedReason, 1)

\* execute_tool has just returned from its execute_bash_command branch
ShellBranchReturned ==
    \/ pc = "shelled"
    \/ /\ Mcp /\ pc = "append"
       /\ response_message.tool_calls[idx].function.name = "execute_bash_command"

(***************************************************************************)
(* C11: execute_tool passes a command to agent_tools.execute_bash_command  *)
(* only when the most recent user message holds an explicit action marker, *)
(* and then passes one command; without the marker the                     *)
(* execute_bash_command branch returns the fixed denial result (empty      *)
(* stdout, the denial reason as stderr, returncode 1) and runs nothing,    *)
(* whatever should_enable_tools_for_next_turn says of the conversation and *)
(* whatever the earlier user messages hold; with the marker it does not    *)
(* return the denial.                                                      *)
(***************************************************************************)
C11_ShellOnlyOnExplicitRequest ==
    /\ [](ShellBranchReturned =>
             (tool_result = Denial <=> ~HasActionMarker(messages)))
    /\ [][(Mcp /\ shell_runs' # shell_runs) =>
             /\ HasActionMarker(messages)
             /\ Len(shell_runs') = Len(shell_runs) + 1]_vars

\* C11: the shell ran for a first user message with a marker; for a later user
\* message without one, for which the tools are offered, the invocation is denied
C11_Witness ==
    /\ pc = "shelled"
    /\ tool_result = Denial
    /\ shell_runs = <<"ls">>
    /\ should_enable_tools_for_next_turn(messages)
    /\ Cardinality(UserPositions(messages)) = 2
    /\ ~HasActionMarker(messages)

\* a conversation reduced to its most recent user message
JustLastUser(msgs) ==
    IF UserPositions(msgs) = {}
    THEN <<>>
    ELSE <<[role |-> "user", content |-> MostRecentUserText(msgs)]>>

(***************************************************************************)
(* C13: should_enable_tools_for_next_turn returns true exactly when the    *)
(* conversation holds no user message or the lower-cased text of the most  *)
(* recent user message contains one of the intent markers; it returns the  *)
(* same for the conversation reduced to its most recent user message, so   *)
(* system, assistant and tool messages and earlier user messages do not    *)
(* count.                                                                  *)
(***************************************************************************)
C13_ExposeIffLastUserIntent ==
    pc = "decided" =>
        /\ include_tools <=>
              \/ UserPositions(messages) = {}
              \/ \E w \in tool_intents :
                    Contains(lower(MostRecentUserText(messages)), w)
        /\ include_tools <=> should_enable_tools_for_next_turn(JustLastUser(messages))

\* C13: the decision is false for a last user message without a marker, after a
\* user message with one and before an assistant message that holds markers
C13_Witness ==
    /\ pc = "decided"
    /\ ~include_tools
    /\ Len(messages) = 4
    /\ messages[2].role = "user" /\ ShellPatternSearch(lower(messages[2].content))
    /\ messages[3].role = "user"
    /\ messages[4] = [role |-> "assistant", content |-> MarkerText]

\* the shell invocations of the running (or last) query that execute_tool denies:
\* position of the assistant message, position of the tool call in it
DeniedCalls ==
    { c \in (start + 1 .. Len(messages)) \X (1 .. 5) :
        /\ HasCalls(messages[c[1]])
        /\ c[2] <= Len(messages[c[1]].tool_calls)
        /\ messages[c[1]].tool_calls[c[2]].function.name = "execute_bash_command"
        /\ ~HasActionMarker(SubSeq(messages, 1, c[1])) }

\* query is still executing the tool calls of the assistant message at position a
TurnOpen(a) ==
    /\ pc \in {"tools", "append"}
    /\ \A b \in (a + 1)..Len(messages) : ~HasCalls(messages[b])

\* the assistant messages with tool calls of the running (or last) query up to a
TurnsUpTo(a) == Cardinality({b \in (start + 1)..a : HasCalls(messages[b])})

(***************************************************************************)
(* C12 (as stated): once query is done with the tool calls of an assistant *)
(* message that holds a denied shell invocation, the conversation holds    *)
(* exactly one tool message with the id of that invocation, its content is *)
(* the rendered denial result, every invocation of the assistant message   *)
(* has been executed, and the endpoint has been called again.              *)
(***************************************************************************)
C12_DenialFedBack ==
    Mcp =>
        \A c \in DeniedCalls :
            LET calls == messages[c[1]].tool_calls
                id == calls[c[2]].id
            IN  ~TurnOpen(c[1]) =>
                   /\ Cardinality({i \in 1..Len(messages) :
                          messages[i].role = "tool" /\ messages[i].tool_call_id = id}) = 1
                   /\ messages[c[1] + c[2]] = ToolMessage(Display(Denial), calls[c[2]])
                   /\ \A k \in 1..Len(calls) :
                          \E n \in 1..Len(executed) : executed[n] = calls[k].id
                   /\ EndpointCalls >= TurnsUpTo(c[1]) + 1

\* the positions of the system messages of the conversation
SystemPositions == {i \in 1..Len(messages) : messages[i].role = "system"}

(***************************************************************************)
(* C14: in every state of every program the conversation holds at most one *)
(* system message, and a system message is the first message.              *)
(***************************************************************************)
C14_SystemOnlyFirst == SystemPositions \subseteq {1}

\* C14: two queries of the agent have returned, tool messages were appended, and
\* the system message is the first message
C14_Witness ==
    /\ Mcp /\ Returned /\ queries = 2
    /\ SystemPositions = {1}
    /\ \E i \in 1..Len(messages) : messages[i].role = "tool"

(***************************************************************************)
(* C15: every step of every program leaves the messages of the             *)
(* conversation in place: the conversation before the step is a prefix of  *)
(* the conversation after it.                                              *)
(***************************************************************************)
C15_AppendOnly ==
    [][/\ Len(messages') >= Len(messages)
       /\ SubSeq(messages', 1, Len(messages)) = messages]_vars

\* C15: two queries have appended user, assistant and tool messages
C15_Witness ==
    /\ Mcp /\ Returned /\ queries = 2 /\ start >= 5
    /\ LastMessage.role = "assistant"
    /\ \E i \in (start + 1)..Len(messages) : messages[i].role = "tool"

\* the endpoint calls of the session that returned, and those that raised
Completed == Cardinality({i \in 1..Len(exchanges) : exchanges[i] = "completed"})
Failed == Cardinality({i \in 1..Len(exchanges) : exchanges[i] = "failed"})

\* an endpoint call is under way
Calling == pc \in {"await", "await2"}

(***************************************************************************)
(* C16 (as stated): number_of_prompts_sent never decreases, and between    *)
(* queries it is the number of endpoint exchanges that completed.          *)
(***************************************************************************)
C16_CountsCompletedExchanges ==
    /\ [][number_of_prompts_sent' >= number_of_prompts_sent]_vars
    /\ [](pc \in {"idle", "raised"} => number_of_prompts_sent = Completed)

(***************************************************************************)
(* C16 (amended): number_of_prompts_sent never decreases; a step adds one  *)
(* to it exactly when the step issues an endpoint call, and adds nothing   *)
(* otherwise; in every state it is the number of endpoint calls issued,    *)
(* those that completed, those that failed and the one under way.          *)
(***************************************************************************)
C16_CountsEndpointCalls ==
    /\ [][number_of_prompts_sent' \in
             {number_of_prompts_sent, number_of_prompts_sent + 1}]_vars
    /\ [][(number_of_prompts_sent' = number_of_prompts_sent + 1)
             <=> (Calling' /\ ~Calling)]_vars
    /\ [](number_of_prompts_sent
             = Completed + Failed + (IF Calling THEN 1 ELSE 0))

\* C16: a query has returned after two calls that completed and one that failed
C16_Witness ==
    /\ Mcp /\ Returned
    /\ Completed = 2 /\ Failed = 1
    /\ number_of_prompts_sent = 3

\* the positions of the tool messages appended by the running (or last) query
ToolPositions == {i \in (start + 1)..Len(messages) : messages[i].role = "tool"}

\* the last reply of a query that has returned holds no content and no tool call
EmptyFinalReply ==
    /\ Mcp /\ Returned /\ replies # <<>>
    /\ ~LastReply.failed
    /\ LastReply.message.tool_calls = <<>>
    /\ LastReply.message.content \in {None, ""}

(***************************************************************************)
(* C17: when the last reply of a query holds no content and no tool call,  *)
(* query returns the note followed by the text of the most recent tool     *)
(* result exactly when the query itself produced a tool result, and the    *)
(* empty text otherwise, whatever earlier queries produced; the returned   *)
(* text is the content of the assistant message appended last.             *)
(***************************************************************************)
C17_FallbackOnlyAfterOwnTools ==
    EmptyFinalReply =>
        /\ outcome =
              Ret(IF ToolPositions # {}
                  THEN FallbackNote \o
                       messages[CHOOSE i \in ToolPositions :
                                   \A j \in ToolPositions : j <= i].content
                  ELSE "")
        /\ LastMessage = [role |-> "assistant", content |-> outcome.val]

\* C17: the first query ran a tool; the second one got a reply without content
\* and without tool calls, ran no tool, and has returned the empty text
C17_Witness ==
    /\ EmptyFinalReply /\ queries = 2
    /\ \E i \in 1..start : messages[i].role = "tool"
    /\ ToolPositions = {}
    /\ outcome = Ret("")

(***************************************************************************)
(* C18: the fallback summary is the note followed by the last tool result  *)
(* of the history: a second summary over the same history is the same      *)
(* text, and so is a summary over the history cut down to its last result. *)
(***************************************************************************)
C18_FallbackFromLastResult ==
    /\ [](pc \in {"synth1", "cut", "again", "again_cut"} =>
             outcome = Ret(FallbackNote \o tool_results_accum[Len(tool_results_accum)]))
    /\ [][(pc \in {"synth1", "cut"} /\ pc' \in {"again", "again_cut"})
             => outcome' = outcome]_vars

\* C18: the second summary was built over a history of several results that was
\* cut down to its last result
C18_Witness ==
    /\ pc = "again_cut"
    /\ Len(tool_results_accum) = 1
    /\ outcome = Ret(FallbackNote \o Display(Str("hello")))

\* a character of a tool name that is not a separator
NotSeparator(c) == c \notin {"-", "_"}

\* a tool name without its separators and in lower case
Canonical(name) == lower(SelectSeq(name, NotSeparator))

\* the names the server listed, none when the listing raised
ListedNames == IF session.listed THEN session.available ELSE <<>>

\* the positions of the listed names that are the wanted name but for case and
\* separators
ListedMatches ==
    {i \in 1..Len(ListedNames) : Canonical(ListedNames[i]) = Canonical(NamePlain)}

\* the names called so far, in the order of the calls
CalledNames == [i \in 1..Len(session.called) |-> session.called[i].name]

\* the three fixed candidates, then the listed names that are none of them
FallbackOrder ==
    <<NamePlain, NameHyphen, NameUnderscore>>
    \o SelectSeq(ListedNames, LAMBDA n : n \notin {NamePlain, NameHyphen, NameUnderscore})

(***************************************************************************)
(* C19: when the server lists a name that is 'sequentialthinking' but for  *)
(* case and the separators '-' and '_', the first such listed name is the  *)
(* first name called; otherwise the names are called in the order          *)
(* 'sequentialthinking', 'sequential-thinking', 'sequential_thinking' and  *)
(* then the listed names.  No name is called twice; a name is called only  *)
(* after every earlier call raised or answered with an 'Unknown tool:'     *)
(* text; the loop ends at the first call that gives a result, and gives up *)
(* only when every name of the order was called.                           *)
(***************************************************************************)
C19_NameResolution ==
    session.at \in {"calling", "success", "exhausted"} =>
        /\ (ListedMatches # {} /\ CalledNames # <<>>) =>
              CalledNames[1] = ListedNames[CHOOSE i \in ListedMatches :
                                              \A j \in ListedMatches : i <= j]
        /\ ListedMatches = {} =>
              /\ Len(CalledNames) <= Len(FallbackOrder)
              /\ CalledNames = SubSeq(FallbackOrder, 1, Len(CalledNames))
              /\ session.at = "exhausted" => CalledNames = FallbackOrder
        /\ \A i, j \in 1..Len(CalledNames) : i # j => CalledNames[i] # CalledNames[j]
        /\ \A i \in 1..(Len(session.called) - 1) : session.called[i].answer # "result"
        /\ session.at = "success" <=>
              /\ session.called # <<>>
              /\ session.called[Len(session.called)].answer = "result"
        /\ session.at = "success" => session.chosen_name = CalledNames[Len(CalledNames)]

\* C19: the server lists 'think' and then 'Sequential_Thinking'; the second is
\* called first and raises, and the call of 'sequentialthinking' gives the result
C19_Witness ==
    /\ session.at = "success"
    /\ session.listed
    /\ session.available = <<NameThink, NameMixed>>
    /\ session.called = <<[name |-> NameMixed, answer |-> "raises"],
                          [name |-> NamePlain, answer |-> "result"]>>

\* the ids of the tool calls of a message, none for a message without tool calls
CallIds(m) ==
    IF HasCalls(m) THEN [j \in 1..Len(m.tool_calls) |-> m.tool_calls[j].id] ELSE <<>>

RECURSIVE AppendedIds(_)
\* the ids of the tool calls appended to a conversation, in the order of the
\* assistant messages and, within one, of its tool calls
AppendedIds(msgs) ==
    IF msgs = <<>> THEN <<>> ELSE CallIds(Head(msgs)) \o AppendedIds(Tail(msgs))

(***************************************************************************)
(* C20 (as stated): execute_tool is called on the appended invocations in  *)
(* the order in which they were appended, on none twice; when query is not *)
(* in the tool calls of an assistant message, every appended invocation    *)
(* has been executed, once; and while an endpoint call is under way every  *)
(* invocation of every assistant message has its tool message.  (Stated   *)
(* for a session whose last query offered the tools.)                      *)
(***************************************************************************)
C20_InOrderExactlyOnce ==
    (Mcp /\ Offered) =>
        /\ Len(executed) <= Len(AppendedIds(messages))
        /\ executed = SubSeq(AppendedIds(messages), 1, Len(executed))
        /\ pc \notin {"tools", "append"} => executed = AppendedIds(messages)
        /\ Calling =>
              \A a \in 1..Len(messages) :
                  HasCalls(messages[a]) =>
                     /\ a + Len(messages[a].tool_calls) <= Len(messages)
                     /\ \A j \in 1..Len(messages[a].tool_calls) :
                           /\ messages[a + j].role = "tool"
                           /\ messages[a + j].tool_call_id = messages[a].tool_calls[j].id
\* the tool calls of the reply, up to the one at idx, that name sequentialthinking
ThinkingCalls ==
    {i \in 1..idx : response_message.tool_calls[i].function.name = "sequentialthinking"}

\* the values _call_sequential_thinking returns
ThinkReturns ==
    IF MCP_AVAILABLE
    THEN { ResultValue(kind) : kind \in ResultKinds } \cup
         { Str(LaunchFailedMessage),
           Str("Error calling sequentialthinking via MCP: initialize failed"),
           Str("Error calling sequentialthinking via MCP: Unknown tool: sequentialthinking") }
    ELSE { Str(InstallMessage) }

ReactReplied == {k \in 1..Len(replies) : ~replies[k].failed}

\* the name and the input of the first line of the k-th reply that matches
\* 'Action: <name>: <input>', NoMatch when no line does
FirstMatch(k) ==
    LET lines == Split(replies[k].message)
        matching == {j \in 1..Len(lines) : action_re_match(lines[j]) # NoMatch}
    IN  IF matching = {}
        THEN NoMatch
        ELSE action_re_match(lines[CHOOSE j \in matching : \A h \in matching : j <= h])

\* the k-th reply has a matching line whose name is a key of known_actions
Dispatchable(k) == FirstMatch(k).action \in known_actions

\* the calls of actions made for the k-th reply
DispatchedFor(k) == {j \in 1..Len(dispatched) : dispatched[j].reply = k}

\* query has gone past the call of the action of the k-th reply
Handled(k) == k < Len(replies) \/ pc # "act"

\* the result of the action of the k-th reply, once it has returned one
ActionReturned(k) ==
    /\ Handled(k)
    /\ Dispatchable(k)
    /\ \A j \in DispatchedFor(k) : ~dispatched[j].result.exc

ObservationOf(k) ==
    UserMessage(Observation(dispatched[CHOOSE j \in DispatchedFor(k) : TRUE].result.val))

\* the parts of C23 on the dispatch: one call for the first matching line, none and
\* a return when no line matches, none and an exception when the name is unknown
DispatchOfFirstAction ==
    \A k \in ReactReplied :
        LET first == FirstMatch(k)
        IN  /\ first = NoMatch =>
                  k = Len(replies) /\ pc = "idle" /\ DispatchedFor(k) = {}
            /\ (first # NoMatch /\ first.action \notin known_actions) =>
                  k = Len(replies) /\ pc = "raised" /\ DispatchedFor(k) = {}
            /\ first.action \in known_actions =>
                  IF Handled(k)
                  THEN /\ Cardinality(DispatchedFor(k)) = 1
                       /\ \A j \in DispatchedFor(k) :
                             /\ dispatched[j].action = first.action
                             /\ dispatched[j].action_input = first.action_input
                             /\ dispatched[j].result.exc
                                   => k = Len(replies) /\ pc = "raised"
                  ELSE DispatchedFor(k) = {}

(***************************************************************************)
(* C23 as stated: for every reply of the model, the first line that        *)
(* matches 'Action: <name>: <input>' is dispatched once to                 *)
(* known_actions[<name>] and, when the query goes on or has returned, the  *)
(* result is in the conversation as the next user message                  *)
(* 'Observation: <result>'; without a matching line query returns, with an *)
(* unknown name it raises and runs no action.                              *)
(***************************************************************************)
C23_ObservationAlwaysSent ==
    /\ DispatchOfFirstAction
    /\ \A k \in ReactReplied :
          (ActionReturned(k) /\ (pc = "idle" \/ Len(messages) > start + 2 * k)) =>
              /\ Len(messages) > start + 2 * k
              /\ messages[start + 2 * k + 1] = ObservationOf(k)

(***************************************************************************)
(* C23, amended: the first matching line of every reply is dispatched once *)
(* to known_actions[<name>]; its result is the next prompt, and the next   *)
(* user message once there is one; query returns without sending it only   *)
(* after the max_turns-th reply of react_example.query.  Without a         *)
(* matching line query returns, with an unknown name it raises and runs no *)
(* action.                                                                 *)
(***************************************************************************)
C23_ObservationSentWithinTurns ==
    /\ DispatchOfFirstAction
    /\ \A k \in ReactReplied :
          ActionReturned(k) =>
              /\ Len(messages) > start + 2 * k
                    => messages[start + 2 * k + 1] = ObservationOf(k)
              /\ (pc = "while" /\ k = Len(replies))
                    => next_prompt = ObservationOf(k).content
              /\ (pc = "idle" /\ k = Len(replies))
                    => /\ variant = "react"
                       /\ k = max_turns
                       /\ Len(messages) = start + 2 * k

\* react_example.query has returned after max_turns replies; the first reply had
\* two Action lines, only the first of them (wikipedia) was dispatched, and its
\* result was sent as the second user message
C23_Witness ==
    /\ variant = "react"
    /\ pc = "idle"
    /\ Len(replies) = max_turns
    /\ replies[1].message = <<"A","c","t","i","o","n",":"," ","w","i","k","i","p","e","d","i","a",":"," ","O","h","i","o","\n","A","c","t","i","o","n",":"," ","c","a","l","c","u","l","a","t","e",":"," ","2","+","2">>
    /\ dispatched[1].action = NameWikipedia
    /\ dispatched[2].reply = 2
    /\ messages[start + 3] = UserMessage(<<"O","b","s","e","r","v","a","t","i","o","n",":"," ","a"," ","s","t","a","t","e">>)

\* the conversation is the system message and then user and assistant messages in
\* turn
SystemThenPairs ==
    /\ messages[1].role = "system"
    /\ \A j \in 2..Len(messages) :
          messages[j].role = IF j % 2 = 0 THEN "user" ELSE "assistant"

(***************************************************************************)
(* C24: a call of react_example.query makes at most max_turns endpoint     *)
(* calls; once the action of the max_turns-th reply has been run, its next *)
(* step is to return; and when it has returned, the conversation of its    *)
(* ChatBot is the system message followed by one user and one assistant    *)
(* message for each endpoint call.                                         *)
(***************************************************************************)
C24_AtMostMaxTurnsCalls ==
    /\ [](variant = "react" =>
            /\ EndpointCalls <= max_turns
            /\ Returned =>
                  /\ SystemThenPairs
                  /\ Len(messages) = 1 + 2 * EndpointCalls)
    /\ [][(variant = "react" /\ pc = "while" /\ EndpointCalls = max_turns)
              => (pc' = "idle" /\ messages' = messages)]_vars

\* react_example.query has returned after max_turns endpoint calls whose replies
\* all had an Action line that was dispatched
C24_Witness ==
    /\ variant = "react"
    /\ Returned
    /\ EndpointCalls = max_turns
    /\ Len(dispatched) = max_turns
    /\ Len(messages) = 1 + 2 * max_turns

(***************************************************************************)
(* C25: a call of react_count_example.query makes at most max_turns        *)
(* endpoint calls.                                                         *)
(***************************************************************************)
C25_CountAtMostMaxTurnsCalls ==
    variant = "react_count" => EndpointCalls <= max_turns

\* pc after an evaluation of one of the two gates
Evaluated == {"decided", "decided_again", "shelled", "shelled_again"}

(***************************************************************************)
(* C22: an evaluation of should_enable_tools_for_next_turn, and one of the *)
(* shell authorization of execute_tool, leaves the conversation and the    *)
(* turn counter as they were; and a second evaluation on the same          *)
(* conversation gives what the first gave: the same exposure decision, the *)
(* same choice between the denial and the shell.                           *)
(***************************************************************************)
C22_GatesArePure ==
    /\ [][(pc' \in Evaluated /\ pc' # pc) =>
             /\ messages' = messages
             /\ number_of_prompts_sent' = number_of_prompts_sent]_vars
    /\ [][pc' = "decided_again" => include_tools' = include_tools]_vars
    /\ [][pc' = "shelled_again" =>
             (tool_result' = Denial) <=> (tool_result = Denial)]_vars

\* both gates have been evaluated twice on a conversation of MaxLen messages whose
\* last user message has no marker while an earlier one has: the second exposure
\* decision is again no, or the second result is again the denial
C22_Witness ==
    /\ Len(messages) = 1 + MaxLen
    /\ UserPositions(messages) # {}
    /\ ~HasActionMarker(messages)
    /\ \E p \in UserPositions(messages) : ShellPatternSearch(lower(messages[p].content))
    /\ \/ pc = "decided_again" /\ ~include_tools
       \/ pc = "shelled_again" /\ tool_result = Denial

\* the conversation as it was when the first endpoint call of the running (or
\* last) query was made: up to the question of the user
AtQuestion == SubSeq(messages, 1, start + 1)

(***************************************************************************)
(* C26: within one query of coding_agent_mcp_example every endpoint call   *)
(* gets the same exposure decision, the one taken on the question of the   *)
(* user: while an endpoint call is under way include_tools is that         *)
(* decision, and it changes only when a new query begins, although execute *)
(* takes the decision anew before each endpoint call.                      *)
(***************************************************************************)
C26_OneDecisionPerQuery ==
    /\ []((Mcp /\ Calling) =>
             include_tools = should_enable_tools_for_next_turn(AtQuestion))
    /\ [][(Mcp /\ include_tools' # include_tools) => queries' = queries + 1]_vars

\* the third endpoint call of a query is under way after two tool rounds: the last
\* message is a tool message and the decision is the one of the first call
C26_Witness ==
    /\ Mcp
    /\ pc = "await"
    /\ Len(replies) = 2
    /\ LastMessage.role = "tool"
    /\ Cardinality(ToolPositions) >= 2
    /\ include_tools

(***************************************************************************)
(* C27: whenever the gate of execute_tool has authorized                   *)
(* execute_bash_command on a conversation (it has not returned the         *)
(* denial), should_enable_tools_for_next_turn is true of that              *)
(* conversation: a text that the shell marker pattern matches holds an     *)
(* exposure intent marker.                                                 *)
(***************************************************************************)
C27_AuthorizedImpliesExposed ==
    (pc = "shelled" /\ tool_result # Denial) =>
        /\ HasActionMarker(messages)
        /\ should_enable_tools_for_next_turn(messages)

\* the session runs coding_agent_example.py
Single == variant = "single"

\* the tool calls of the k-th response of the running (or last) query
CallsOf(k) ==
    IF k <= Len(replies) /\ ~replies[k].failed THEN replies[k].message.tool_calls ELSE <<>>

\* their ids, in order
IdsOf(k) == [j \in 1..Len(CallsOf(k)) |-> CallsOf(k)[j].id]

\* the ids of the tool calls that the running (or last) query has passed to
\* execute_tool, in order
ExecutedInQuery ==
    SelectSeq(executed, LAMBDA id : \E k \in 1..Len(replies) : id \in Elements(IdsOf(k)))

(***************************************************************************)
(* C28: a query of coding_agent_example makes at most two endpoint calls;  *)
(* the tool calls of its second response are never executed; when the      *)
(* first response has tool calls and the query has ended, each of them was *)
(* executed once, in order, and answered by a tool message, and the        *)
(* endpoint was called a second time; and when the query has returned, it  *)
(* has appended one assistant message with the content of the second       *)
(* response and returned that content.                                     *)
(***************************************************************************)
C28_SingleRound ==
    Single =>
        /\ EndpointCalls <= 2
        /\ \A j \in 1..Len(executed) : executed[j] \notin Elements(IdsOf(2))
        /\ (CallsOf(1) # <<>> /\ Ended) =>
              /\ ExecutedInQuery = IdsOf(1)
              /\ Len(replies) = 2
              /\ \A j \in 1..Len(IdsOf(1)) :
                    /\ messages[start + 2 + j].role = "tool"
                    /\ messages[start + 2 + j].tool_call_id = IdsOf(1)[j]
        /\ (CallsOf(1) # <<>> /\ Returned) =>
              /\ Len(messages) = start + 3 + Len(IdsOf(1))
              /\ LastMessage = [role |-> "assistant",
                                content |-> replies[2].message.content]
              /\ outcome = Ret(replies[2].message.content)


(***************************************************************************)
(* The tool catalog and the dispatcher of coding_agent_mcp_example.py on   *)
(* their own: execute_tool is called, as query calls it, with names of the *)
(* catalog and with names outside it, over parsed arguments of every       *)
(* shape.  pc is "dispatch" before the first call and "append" when        *)
(* execute_tool has just returned into tool_result; each call is the one   *)
(* tool call of its own endpoint reply.                                    *)
(***************************************************************************)
MaxCalls == 2

\* get_tool_definitions: the "name" of each function of the list, in its order
get_tool_definitions ==
    <<"read_file", "write_file", "see_file_tree", "execute_bash_command",
      "search_in_files", "sequentialthinking">>

\* the names declared to the endpoint
Declared == { get_tool_definitions[i] : i \in DOMAIN get_tool_definitions }

\* names the endpoint may ask for that the catalog does not hold
OutsideNames == {"delete_all", "Read_File", "sequential_thinking", ""}

\* an arguments object with the required keys of every declared tool
FullArgs ==
    Obj([filepath |-> "a.txt", content |-> "x", command |-> "ls", pattern |-> "x",
         thought |-> "t", nextThoughtNeeded |-> "false", thoughtNumber |-> "1",
         totalThoughts |-> "1"])

\* the parsed arguments of the tool calls: complete, empty, and not an object
DispatchArguments == <<FullArgs, Obj(<<>>), JsonArray>>

DispatchInit ==
    /\ variant = "mcp"
    /\ messages \in { list_append(NewConversation(defaultSystem), UserMessage(t)) :
                          t \in UserTexts }
    /\ number_of_prompts_sent = 1
    /\ pc = "dispatch"
    /\ response_message = NoValue
    /\ cycles = 0
    /\ tool_results_accum = <<>>
    /\ idx = 0
    /\ tool_result = NoValue
    /\ include_tools = FALSE
    /\ outcome = Ret(NoValue)
    /\ queries = 1
    /\ replies = <<>>
    /\ start = 1
    /\ executed = <<>>
    /\ shell_runs = <<>>
    /\ invoked = <<>>
    /\ exchanges = <<"completed">>
    /\ session = NoSession
    /\ MCP_AVAILABLE \in BOOLEAN
    /\ launched = 0
    /\ turn = 0
    /\ next_prompt = <<>>
    /\ dispatched = <<>>

\* what no step of DispatchSpec changes
DispatchRest ==
    <<variant, messages, number_of_prompts_sent, cycles, tool_results_accum,
      include_tools, outcome, queries, replies, start, exchanges, session,
      MCP_AVAILABLE, turn, next_prompt, dispatched>>

\* query: function_name = tool_call.function.name;
\* tool_result = bot.execute_tool(function_name, function_args)
Dispatch(function_name, a) ==
    /\ pc \in {"dispatch", "append"}
    /\ Len(executed) < MaxCalls
    /\ \E mcp \in IF function_name = "sequentialthinking"
                   THEN BridgeOutcomes(MCP_AVAILABLE) ELSE {"unavailable"} :
          /\ response_message' =
                 ReplyMessage([content |-> "",
                               tool_calls |-> <<[name |-> function_name,
                                                 arguments |-> DispatchArguments[a]]>>],
                              Len(executed) + 1)
          /\ idx' = 1
          /\ executed' = Append(executed, <<Len(executed) + 1, 1>>)
          /\ tool_result' = execute_tool(messages, function_name, DispatchArguments[a],
                                         mcp).val
          /\ shell_runs' = shell_runs
                              \o ShellCall(messages, function_name, DispatchArguments[a])
          /\ invoked' = invoked \o Invoked(messages, function_name, DispatchArguments[a])
          /\ launched' = launched + Launches(function_name, mcp)
    /\ pc' = "append"
    /\ UNCHANGED DispatchRest

DispatchNext ==
    \E function_name \in Declared \cup OutsideNames, a \in DOMAIN DispatchArguments :
        Dispatch(function_name, a)

DispatchSpec == DispatchInit /\ [][DispatchNext]_vars

\* the name of the tool call that execute_tool has just handled
function_name == response_message.tool_calls[idx].function.name

(***************************************************************************)
(* C29: in coding_agent_mcp_example.py the tool catalog and the dispatcher *)
(* agree: for every name that get_tool_definitions declares, execute_tool  *)
(* has a branch and its result is never 'Unknown tool: <name>'; for every  *)
(* name outside the catalog the result is 'Unknown tool: <name>' and the   *)
(* call invokes no capability (no method of agent_tools, no shell command, *)
(* no launch of the MCP server).                                           *)
(***************************************************************************)
C29_CatalogAndDispatcherAgree ==
    /\ [](pc = "append" =>
             /\ function_name \in Declared =>
                    /\ function_name \in Branches
                    /\ tool_result # Str("Unknown tool: " \o function_name)
             /\ function_name \notin Declared =>
                    /\ function_name \notin Branches
                    /\ tool_result = Str("Unknown tool: " \o function_name))
    /\ [][(pc' = "append" /\ function_name' \notin Declared) =>
             /\ invoked' = invoked
             /\ shell_runs' = shell_runs
             /\ launched' = launched]_vars

\* after a declared tool was dispatched to the bridge, which launched the server,
\* a name outside the catalog got 'Unknown tool: delete_all' and nothing was invoked
C29_Witness ==
    /\ pc = "append"
    /\ Len(executed) = 2
    /\ function_name = "delete_all"
    /\ tool_result = Str("Unknown tool: delete_all")
    /\ invoked = <<"_call_sequential_thinking">>
    /\ launched = 1

====
